---- MODULE Spec2Model ----
(***************************************************************************)
(* Navihive: the two-level reorder sessions of App.tsx / GroupCard and the *)
(* asynchronous handlers that refresh the Entity Store (the `groups`       *)
(* state of App) from storage.                                             *)
(***************************************************************************)
EXTENDS Integers, Sequences, FiniteSets, Bags, TLC

VARIABLES
    groups,                 \* App state: GroupWithSites[] (the Entity Store)
    loading,                \* App state
    error,                  \* App state: "null" or the message tag
    sortMode,               \* App state: "None" | "GroupSort" | "SiteSort"
    currentSortingGroupId,  \* App state: group id or Null
    isAuthChecking,         \* App state
    isAuthRequired,         \* App state
    isAuthenticated,        \* App state
    surfaced,               \* the message the last step gave to handleError, or ""
    cardSites,              \* GroupCard local state `sites`, one per mounted card
    warned,                 \* the card whose warning the last step opened, or Null
    tasks,                  \* asynchronous handlers suspended at an await
    db,                     \* storage behind the API client
    opsStarted,             \* number of asynchronous handlers started by the user
    sortClicked,            \* the group whose sort button the last step clicked, or Null
    startGroups,            \* the Entity Store as it was when the session started
    refreshed,              \* a refresh replaced the Entity Store during the session
    configs,                \* App state: the configuration as last fetched
    openImport,             \* App state: the import dialog is open
    importFile,             \* App state: the file chosen in the import dialog, or NoFile
    importLoading,          \* App state: the gate of the import button
    importResultMessage,    \* App state: <<statistics>> of the last successful import, or <<>>
    openAddGroup,           \* App state: the dialog for a new group is open
    newGroup,               \* App state: the form of the new group
    openAddSite,            \* App state: the dialog for a new site is open
    newSite,                \* App state: the form of the new site
    editDialogOpen,         \* GroupCard local state: the card whose EditGroupDialog is open, or Null
    dialogName,             \* EditGroupDialog local state `name` of that card
    showDeleteConfirm,      \* EditGroupDialog local state of that card
    downloaded              \* <<snapshot>> the last step gave to the download link, or <<>>

vars == <<groups, loading, error, sortMode, currentSortingGroupId, isAuthChecking,
          isAuthRequired, isAuthenticated, surfaced, cardSites, warned,
          tasks, db, opsStarted, sortClicked, startGroups, refreshed,
          configs, openImport, importFile, importLoading, importResultMessage,
          openAddGroup, newGroup, openAddSite, newSite, editDialogOpen, dialogName,
          showDeleteConfirm, downloaded>>

\* The state of the import dialog.
importVars == <<openImport, importFile, importLoading, importResultMessage>>

\* The state of the dialogs for a new group and a new site.
formVars == <<openAddGroup, newGroup, openAddSite, newSite>>

\* The local state of the mounted cards and of their EditGroupDialog.
dialogVars == <<editDialogOpen, dialogName, showDeleteConfirm>>

cardVars == <<cardSites, dialogVars>>

Null == 0

\* Bounds of the model.
MaxOps == 2
MaxInFlight == 1

-----------------------------------------------------------------------------
\* Sequences

Range(s) == {s[i] : i \in DOMAIN s}

Ids(s) == {s[i].id : i \in DOMAIN s}

RemoveAt(s, i) == SubSeq(s, 1, i - 1) \o SubSeq(s, i + 1, Len(s))

InsertAt(s, j, x) == SubSeq(s, 1, j - 1) \o <<x>> \o SubSeq(s, j, Len(s))

\* findIndex: the first 1-based position whose id is `id`, or 0 (the code's -1).
FindIndex(s, id) ==
    IF \E i \in DOMAIN s : s[i].id = id
    THEN CHOOSE i \in DOMAIN s : s[i].id = id /\ \A k \in 1..(i - 1) : s[k].id # id
    ELSE 0

\* Exchanging two positions, which is not what arrayMove does.
arraySwap(array, from, to) ==
    [k \in DOMAIN array |->
        IF k = from THEN array[to] ELSE IF k = to THEN array[from] ELSE array[k]]

\* arrayMove of @dnd-kit/sortable: slice, splice the element out, splice it in.
arrayMove(array, from, to) == InsertAt(RemoveAt(array, from), to, array[from])

\* Stable insertion of a row into a list sorted by order_num.
RECURSIVE SortByOrderNum(_)
SortByOrderNum(s) ==
    IF Len(s) <= 1 THEN s
    ELSE LET rest == SortByOrderNum(Tail(s))
             x == Head(s)
             before == SelectSeq(rest, LAMBDA r : r.order_num < x.order_num)
             after == SelectSeq(rest, LAMBDA r : r.order_num >= x.order_num)
         IN before \o <<x>> \o after

-----------------------------------------------------------------------------
\* Storage, as the API client exposes it

\* The rows of a store whose order_num values are neither dense nor distinct.
InitialGroupRows ==
    << [id |-> 1, name |-> "Dev", order_num |-> 5], [id |-> 2, name |-> "Ops", order_num |-> 2] >>

InitialSiteRows ==
    << [id |-> 11, group_id |-> 1, url |-> "https://git.example/repo", name |-> "Repo",
        order_num |-> 4],
       [id |-> 12, group_id |-> 1, url |-> "https://ci.example", name |-> "CI", order_num |-> 4],
       [id |-> 21, group_id |-> 2, url |-> "https://git.example/repo", name |-> "Repo",
        order_num |-> 7] >>

getGroups(d) == SortByOrderNum(d.groups)

getSites(d, g) == SortByOrderNum(SelectSeq(d.sites, LAMBDA r : r.group_id = g))

\* updateGroupOrder / updateSiteOrder: each submitted pair rewrites one row.
OrderNumIn(pairs, id, old) ==
    IF \E p \in DOMAIN pairs : pairs[p].id = id
    THEN pairs[CHOOSE p \in DOMAIN pairs : pairs[p].id = id].order_num
    ELSE old

updateGroupOrder(d, pairs) ==
    [d EXCEPT !.groups = [i \in DOMAIN d.groups |->
        [d.groups[i] EXCEPT !.order_num = OrderNumIn(pairs, d.groups[i].id, @)]]]

updateSiteOrder(d, pairs) ==
    [d EXCEPT !.sites = [i \in DOMAIN d.sites |->
        [d.sites[i] EXCEPT !.order_num = OrderNumIn(pairs, d.sites[i].id, @)]]]

deleteSite(d, siteId) == [d EXCEPT !.sites = SelectSeq(d.sites, LAMBDA r : r.id # siteId)]

\* deleteGroup cascades to the sites of the group.
deleteGroup(d, groupId) ==
    [d EXCEPT !.groups = SelectSeq(d.groups, LAMBDA r : r.id # groupId),
              !.sites = SelectSeq(d.sites, LAMBDA r : r.group_id # groupId)]

getConfigs(d) == d.configs

\* Ids are assigned by storage: one more than the largest in use.
NewId(rows) ==
    IF rows = <<>> THEN 1
    ELSE 1 + CHOOSE m \in Ids(rows) : \A n \in Ids(rows) : n <= m

createGroup(d, group) ==
    [d EXCEPT !.groups = Append(@, [id |-> NewId(d.groups), name |-> group.name,
                                    order_num |-> group.order_num])]

createSite(d, site) ==
    [d EXCEPT !.sites = Append(@, [id |-> NewId(d.sites), group_id |-> site.group_id,
                                   url |-> site.url, name |-> site.name,
                                   order_num |-> site.order_num])]

updateGroup(d, groupId, group) ==
    [d EXCEPT !.groups = [i \in DOMAIN d.groups |->
        IF d.groups[i].id = groupId THEN [d.groups[i] EXCEPT !.name = group.name]
        ELSE d.groups[i]]]

NoConfigs == [k \in {} |-> ""]

-----------------------------------------------------------------------------
\* Rendering: which parts of the tree are mounted

\* App returns the spinner or the login form before anything else is rendered.
AppShown == ~isAuthChecking /\ ~(isAuthRequired /\ ~isAuthenticated)

\* The list area is rendered when !loading && !error.
ListShown == AppShown /\ ~loading /\ error = "null"

\* GroupCards are rendered in the list area unless the mode is GroupSort.
CardsShown == ListShown /\ sortMode # "GroupSort"

SitesOf(gs, g) == gs[FindIndex(gs, g)].sites

\* useState<Site[]>(group.sites): a card that mounts takes the sites of its group,
\* a card that stays mounted (same key) keeps its local state.
MountCards(old, gs, shown) ==
    [g \in (IF shown THEN Ids(gs) ELSE {}) |->
        IF g \in DOMAIN old THEN old[g] ELSE SitesOf(gs, g)]

\* The EditGroupDialog of a card is local state of the card and goes with it; while
\* the card stays mounted, a refresh gives it a new `group` and the effect on
\* [group, open] sets the name from the group and hides the delete confirmation.
DialogAfter(refetched) ==
    IF editDialogOpen \in DOMAIN cardSites'
    THEN /\ editDialogOpen' = editDialogOpen
         /\ IF refetched
            THEN /\ dialogName' = groups'[FindIndex(groups', editDialogOpen)].name
                 /\ showDeleteConfirm' = FALSE
            ELSE UNCHANGED <<dialogName, showDeleteConfirm>>
    ELSE editDialogOpen' = Null /\ dialogName' = "" /\ showDeleteConfirm' = FALSE

RerenderAfter(refetched) ==
    /\ cardSites' = MountCards(cardSites, groups', CardsShown')
    /\ DialogAfter(refetched)

Rerender == RerenderAfter(FALSE)

isCurrentEditingGroup(g) == sortMode = "SiteSort" /\ currentSortingGroupId = g

-----------------------------------------------------------------------------
\* Asynchronous handlers

Task(kind, pc, arg, payload) ==
    [kind |-> kind, pc |-> pc, out |-> "", arg |-> arg, payload |-> payload, snap |-> <<>>]

\* The handlers in flight form a bag: nothing orders them.
AddTask(t) == tasks (+) SetToBag({t})

DropTask(t) == tasks (-) SetToBag({t})

ReplaceTask(t, u) == (tasks (-) SetToBag({t})) (+) SetToBag({u})

InFlight == BagToSet(tasks)

\* The model follows MaxOps handlers started by the user, MaxInFlight at a time.
CanStart == opsStarted < MaxOps /\ BagCardinality(tasks) < MaxInFlight

\* useState<File | null>(null)
NoFile == ""

\* App.tsx DEFAULT_CONFIGS, as a function from configuration key to value.
DEFAULT_CONFIGS == [k \in {"site.title"} |-> "default"]

\* useState of the forms and dialogs, and nothing given to the download link.
NoGroupForm == [name |-> "", order_num |-> 0]

NoSiteForm == [name |-> "", url |-> "", group_id |-> 0, order_num |-> 0]

FormsClosed ==
    /\ openAddGroup = FALSE
    /\ newGroup = NoGroupForm
    /\ openAddSite = FALSE
    /\ newSite = NoSiteForm
    /\ editDialogOpen = Null
    /\ dialogName = ""
    /\ showDeleteConfirm = FALSE
    /\ downloaded = <<>>

Init ==
    /\ groups = <<>>
    /\ loading = TRUE
    /\ error = "null"
    /\ sortMode = "None"
    /\ currentSortingGroupId = Null
    /\ isAuthChecking = TRUE
    /\ isAuthRequired = FALSE
    /\ isAuthenticated = FALSE
    /\ surfaced = ""
    /\ cardSites = [g \in {} |-> <<>>]
    /\ warned = Null
    /\ tasks = SetToBag({Task("checkAuth", "call", Null, <<>>)})
    /\ db = [groups |-> InitialGroupRows, sites |-> InitialSiteRows, configs |-> NoConfigs]
    /\ opsStarted = 0
    /\ sortClicked = Null
    /\ startGroups = <<>>
    /\ refreshed = FALSE
    /\ configs = DEFAULT_CONFIGS
    /\ openImport = FALSE
    /\ importFile = NoFile
    /\ importLoading = FALSE
    /\ importResultMessage = <<>>
    /\ FormsClosed

-----------------------------------------------------------------------------
\* Steps shared by the asynchronous handlers

\* handleError: the message is put in the snackbar (setSnackbarMessage, setSnackbarOpen).
handleError(msg) == surfaced' = msg

\* fetchData up to its first await: setLoading(true); setError(null); api.getGroups().
fetchDataBegin(t) ==
    /\ loading' = TRUE
    /\ error' = "null"
    /\ tasks' = ReplaceTask(t, [t EXCEPT !.pc = "getGroups", !.out = ""])

\* api.getGroups() is answered: the rows in ascending order_num, or a failure.
ServerGetGroups(t) ==
    /\ t.pc = "getGroups"
    /\ \E out \in {"ok", "error", "auth"} :
          /\ tasks' = ReplaceTask(t,
                IF out = "ok"
                THEN [t EXCEPT !.pc = "getSites",
                               !.snap = [k \in DOMAIN getGroups(db) |->
                                   [id |-> getGroups(db)[k].id,
                                    name |-> getGroups(db)[k].name,
                                    order_num |-> getGroups(db)[k].order_num,
                                    sites |-> <<>>]]]
                ELSE [t EXCEPT !.pc = "fetched", !.out = out])
    /\ UNCHANGED <<importVars, configs>>
    /\ UNCHANGED formVars /\ downloaded' = <<>>
    /\ sortClicked' = Null /\ warned' = Null /\ surfaced' = ""
    /\ UNCHANGED <<groups, loading, error, sortMode, currentSortingGroupId, isAuthChecking,
                   isAuthRequired, isAuthenticated, cardVars, db, opsStarted, startGroups,
                   refreshed>>

\* Promise.all over api.getSites(group.id) is answered.
ServerGetSites(t) ==
    /\ t.pc = "getSites"
    /\ \E out \in {"ok", "error", "auth"} :
          /\ tasks' = ReplaceTask(t,
                IF out = "ok"
                THEN [t EXCEPT !.pc = "fetched", !.out = "ok",
                               !.snap = [k \in DOMAIN t.snap |->
                                   [id |-> t.snap[k].id,
                                    name |-> t.snap[k].name,
                                    order_num |-> t.snap[k].order_num,
                                    sites |-> getSites(db, t.snap[k].id)]]]
                ELSE [t EXCEPT !.pc = "fetched", !.out = out])
    /\ UNCHANGED <<importVars, configs>>
    /\ UNCHANGED formVars /\ downloaded' = <<>>
    /\ sortClicked' = Null /\ warned' = Null /\ surfaced' = ""
    /\ UNCHANGED <<groups, loading, error, sortMode, currentSortingGroupId, isAuthChecking,
                   isAuthRequired, isAuthenticated, cardVars, db, opsStarted, startGroups,
                   refreshed>>

\* The rest of fetchData, and what its caller does once `await fetchData()` returns:
\* a commit leaves the session, handleCreateGroup and handleCreateSite close their
\* dialog, checkAuthStatus, handleLogin and the import go on to fetchConfigs.
fetchDataEnd(t) ==
    LET commit == t.kind \in {"saveGroupOrder", "saveSiteOrder"}
    IN
    /\ t.pc = "fetched"
    /\ IF t.out = "ok"
       THEN /\ groups' = t.snap
            /\ surfaced' = ""
       ELSE /\ handleError("fetchData")
            /\ UNCHANGED groups
    /\ IF t.out = "auth"
       THEN isAuthRequired' = TRUE /\ isAuthenticated' = FALSE
       ELSE UNCHANGED <<isAuthRequired, isAuthenticated>>
    /\ loading' = FALSE
    /\ IF commit
       THEN sortMode' = "None" /\ currentSortingGroupId' = Null
       ELSE UNCHANGED <<sortMode, currentSortingGroupId>>
    /\ tasks' = IF t.kind \in {"checkAuth", "login", "import"}
                THEN ReplaceTask(t, [t EXCEPT !.pc = "getConfigs", !.snap = <<>>])
                ELSE DropTask(t)
    /\ startGroups' = IF commit THEN <<>> ELSE startGroups
    /\ refreshed' = IF commit \/ sortMode = "None" THEN FALSE
                    ELSE (refreshed \/ t.out = "ok")
    /\ UNCHANGED <<importVars, configs>>
    /\ IF t.kind = "createGroup"
       THEN openAddGroup' = FALSE /\ newGroup' = NoGroupForm
       ELSE UNCHANGED <<openAddGroup, newGroup>>
    /\ openAddSite' = IF t.kind = "createSite" THEN FALSE ELSE openAddSite
    /\ UNCHANGED newSite
    /\ downloaded' = <<>>
    /\ sortClicked' = Null /\ warned' = Null
    /\ UNCHANGED <<error, isAuthChecking, db, opsStarted>>
    /\ RerenderAfter(t.out = "ok")

\* { ...DEFAULT_CONFIGS, ...configsData }: the keys of the second override the first.
SpreadFirstOnly(a, b) == a

Spread(a, b) == [k \in DOMAIN a \cup DOMAIN b |-> IF k \in DOMAIN b THEN b[k] ELSE a[k]]

\* fetchConfigs is answered (a failure is only logged) and the caller goes on: the
\* finally block of checkAuthStatus, or handleCloseImport and the finally block of
\* the onload callback of handleImportData.
fetchConfigsEnd(t) ==
    /\ t.pc = "getConfigs"
    /\ \E out \in {"ok", "error"} :
          configs' = IF out = "ok" THEN Spread(DEFAULT_CONFIGS, getConfigs(db)) ELSE configs
    /\ isAuthChecking' = IF t.kind = "checkAuth" THEN FALSE ELSE isAuthChecking
    /\ openImport' = IF t.kind = "import" THEN FALSE ELSE openImport
    /\ importLoading' = IF t.kind = "import" THEN FALSE ELSE importLoading
    /\ tasks' = DropTask(t)
    /\ UNCHANGED <<importFile, importResultMessage>>
    /\ UNCHANGED formVars /\ downloaded' = <<>>
    /\ sortClicked' = Null /\ warned' = Null /\ surfaced' = ""
    /\ UNCHANGED <<groups, loading, error, sortMode, currentSortingGroupId, isAuthRequired,
                   isAuthenticated, db, opsStarted, startGroups, refreshed>>
    /\ Rerender

-----------------------------------------------------------------------------
\* Import: the values JSON.parse gives, the files the user may choose and the
\* checks of the onload callback of handleImportData

Undefined == [type |-> "undefined"]

JsString == [type |-> "string"]

JsArray(items) == [type |-> "array", items |-> items]

JsObject(map) == [type |-> "object", map |-> map]

\* !v is false for every array and object, and for the (non-empty) strings used here.
Truthy(v) == v.type \notin {"undefined", "null"}

IsArray(v) == v.type = "array"

\* typeof v === 'object' holds of objects, of arrays and of null.
TypeofObject(v) == v.type \in {"object", "array", "null"}

FileGroup(id, name) == [id |-> id, name |-> name, order_num |-> 0]

FileSite(group_id, url, name) ==
    [group_id |-> group_id, url |-> url, name |-> name, order_num |-> 0]

DevGroups == JsArray(<< FileGroup(7, "Dev") >>)

RepoSites == JsArray(<< FileSite(7, "https://git.example/repo", "Repo") >>)

TitleConfigs == JsObject([k \in {"site.title"} |-> "X"])

ImportFiles ==
    {"dev.json", "twins.json", "renamed.json", "noGroups.json", "groupsObject.json",
     "noSites.json", "noConfigs.json", "configsString.json", "configsArray.json"}

\* JSON.parse of the text of the file.
Content(file) ==
    IF file = "dev.json"
        THEN [groups |-> DevGroups, sites |-> RepoSites, configs |-> TitleConfigs]
    ELSE IF file = "twins.json"
        THEN [groups |-> JsArray(<< FileGroup(7, "Dev"), FileGroup(8, "Dev") >>),
              sites |-> JsArray(<< FileSite(7, "https://git.example/repo", "Repo"),
                                   FileSite(8, "https://git.example/repo", "Repo") >>),
              configs |-> JsObject(NoConfigs)]
    ELSE IF file = "renamed.json"
        THEN [groups |-> DevGroups,
              sites |-> JsArray(<< FileSite(7, "https://git.example/repo", "Repo"),
                                   FileSite(7, "https://git.example/repo", "Mirror") >>),
              configs |-> TitleConfigs]
    ELSE IF file = "noGroups.json"
        THEN [groups |-> Undefined, sites |-> Undefined, configs |-> Undefined]
    ELSE IF file = "groupsObject.json"
        THEN [groups |-> JsObject(NoConfigs), sites |-> RepoSites, configs |-> TitleConfigs]
    ELSE IF file = "noSites.json"
        THEN [groups |-> DevGroups, sites |-> JsString, configs |-> Undefined]
    ELSE IF file = "noConfigs.json"
        THEN [groups |-> DevGroups, sites |-> RepoSites, configs |-> Undefined]
    ELSE IF file = "configsString.json"
        THEN [groups |-> DevGroups, sites |-> RepoSites, configs |-> JsString]
    ELSE [groups |-> DevGroups, sites |-> RepoSites, configs |-> JsArray(<<>>)]

\* The three checks of the onload callback, in their order: the section whose check
\* throws, or "" when api.importData is called.
RejectedSection(importData) ==
    IF ~Truthy(importData.groups) \/ ~IsArray(importData.groups) THEN "groups"
    ELSE IF ~Truthy(importData.sites) \/ ~IsArray(importData.sites) THEN "sites"
    ELSE IF ~Truthy(importData.configs) \/ ~TypeofObject(importData.configs) THEN "configs"
    ELSE ""

-----------------------------------------------------------------------------
\* Import reconciliation by storage (api.importData)

\* The least member of a set of positions, or 0 when there is none.
FirstMatch(positions) ==
    IF positions = {} THEN 0
    ELSE CHOOSE i \in positions : \A k \in positions : i <= k

NoStats ==
    [groups |-> [total |-> 0, created |-> 0, merged |-> 0],
     sites |-> [total |-> 0, created |-> 0, updated |-> 0, skipped |-> 0]]

\* A group of the file is merged into the first stored group of its name, or created.
RECURSIVE importGroups(_, _, _)
importGroups(acc, incoming, k) ==
    IF k > Len(incoming) THEN acc
    ELSE LET g == incoming[k]
             hit == FirstMatch({i \in DOMAIN acc.db.groups : acc.db.groups[i].name = g.name})
             id == IF hit # 0 THEN acc.db.groups[hit].id ELSE NewId(acc.db.groups)
         IN importGroups(
              [db |-> IF hit # 0 THEN acc.db
                      ELSE [acc.db EXCEPT !.groups =
                               Append(@, [id |-> id, name |-> g.name, order_num |-> g.order_num])],
               resolved |-> (g.id :> id) @@ acc.resolved,
               stats |-> [acc.stats EXCEPT
                             !.groups.total = @ + 1,
                             !.groups.created = IF hit # 0 THEN @ ELSE @ + 1,
                             !.groups.merged = IF hit # 0 THEN @ + 1 ELSE @]],
              incoming, k + 1)

\* The stored site and the incoming one differ in nothing the import writes.
NeverSameSite(row, site) == FALSE

SameSite(row, site) == row.name = site.name /\ row.order_num = site.order_num

\* A site of the file matches the first stored site of its url in its resolved group:
\* skipped when identical, updated in place otherwise; created when there is no match.
RECURSIVE importSites(_, _, _)
importSites(acc, incoming, k) ==
    IF k > Len(incoming) THEN acc
    ELSE LET site == incoming[k]
             group_id == acc.resolved[site.group_id]
             hit == FirstMatch({i \in DOMAIN acc.db.sites :
                                  /\ acc.db.sites[i].url = site.url
                                  /\ acc.db.sites[i].group_id = group_id})
             same == hit # 0 /\ SameSite(acc.db.sites[hit], site)
         IN importSites(
              [db |-> IF hit = 0
                      THEN [acc.db EXCEPT !.sites =
                               Append(@, [id |-> NewId(acc.db.sites), group_id |-> group_id,
                                          url |-> site.url, name |-> site.name,
                                          order_num |-> site.order_num])]
                      ELSE IF same THEN acc.db
                      ELSE [acc.db EXCEPT !.sites[hit].name = site.name,
                                          !.sites[hit].order_num = site.order_num],
               resolved |-> acc.resolved,
               stats |-> [acc.stats EXCEPT
                             !.sites.total = @ + 1,
                             !.sites.created = IF hit = 0 THEN @ + 1 ELSE @,
                             !.sites.skipped = IF same THEN @ + 1 ELSE @,
                             !.sites.updated = IF hit # 0 /\ ~same THEN @ + 1 ELSE @]],
              incoming, k + 1)

\* The snapshot is one storage can reconcile: the three sections as the policy
\* takes them, every site in a group of the file.
WellFormed(snapshot) ==
    /\ IsArray(snapshot.groups) /\ IsArray(snapshot.sites) /\ snapshot.configs.type = "object"
    /\ \A k \in DOMAIN snapshot.sites.items :
          \E n \in DOMAIN snapshot.groups.items :
              snapshot.groups.items[n].id = snapshot.sites.items[k].group_id

\* importData: groups, then sites, then every imported configuration pair written
\* over the stored one. The result holds the storage after it and the statistics.
importData(d, snapshot) ==
    LET afterGroups == importGroups([db |-> d, resolved |-> <<>>, stats |-> NoStats],
                                    snapshot.groups.items, 1)
        afterSites == importSites(afterGroups, snapshot.sites.items, 1)
    IN [db |-> [afterSites.db EXCEPT !.configs = Spread(@, snapshot.configs.map)],
        stats |-> afterSites.stats]

-----------------------------------------------------------------------------
\* The storage answers a request that is not part of fetchData

\* "auth": storage rejects the caller.
Outcomes(kind) == {"ok", "false", "error", "auth"}

Applied(t) ==
    IF t.kind = "saveGroupOrder" THEN updateGroupOrder(db, t.payload)
    ELSE IF t.kind = "saveSiteOrder" THEN updateSiteOrder(db, t.payload)
    ELSE IF t.kind = "siteDelete" THEN deleteSite(db, t.arg)
    ELSE IF t.kind = "groupDelete" THEN deleteGroup(db, t.arg)
    ELSE IF t.kind = "import" THEN importData(db, t.payload[1]).db
    ELSE IF t.kind = "createGroup" THEN createGroup(db, t.payload[1])
    ELSE IF t.kind = "createSite" THEN createSite(db, t.payload[1])
    ELSE IF t.kind = "groupUpdate" THEN updateGroup(db, t.arg, t.payload[1])
    ELSE db

\* What the answer carries besides the outcome: the statistics of an import.
Answer(t, out) ==
    IF t.kind = "import" /\ out = "ok" THEN << importData(db, t.payload[1]).stats >> ELSE t.snap

ServerCall(t) ==
    /\ t.pc = "call"
    /\ \E out \in Outcomes(t.kind) :
          /\ t.kind = "siteDelete" =>
                (out = "ok") = (t.arg \in Ids(db.sites)) \/ out \in {"error", "auth"}
          /\ t.kind = "groupDelete" =>
                (out = "ok") = (t.arg \in Ids(db.groups)) \/ out \in {"error", "auth"}
          /\ t.kind = "groupUpdate" =>
                (out = "ok") = (t.arg \in Ids(db.groups)) \/ out \in {"error", "auth"}
          /\ t.kind \in {"createGroup", "createSite"} => out # "false"
          /\ t.kind = "import" => (out = "ok" => WellFormed(t.payload[1]))
          /\ db' = IF out = "ok" THEN Applied(t) ELSE db
          /\ tasks' = ReplaceTask(t, [t EXCEPT !.pc = "resp", !.out = out,
                                               !.snap = Answer(t, out)])
    /\ UNCHANGED <<importVars, configs>>
    /\ UNCHANGED formVars /\ downloaded' = <<>>
    /\ sortClicked' = Null /\ warned' = Null /\ surfaced' = ""
    /\ UNCHANGED <<groups, loading, error, sortMode, currentSortingGroupId, isAuthChecking,
                   isAuthRequired, isAuthenticated, cardVars, opsStarted, startGroups,
                   refreshed>>

-----------------------------------------------------------------------------
\* Handlers resumed by the answer to their first request

\* checkAuthStatus after `await api.checkAuthStatus()`.
checkAuthStatusResume(t) ==
    /\ t.kind = "checkAuth" /\ t.pc = "resp"
    /\ IF t.out = "ok"
       THEN /\ isAuthenticated' = TRUE
            /\ isAuthRequired' = FALSE
            /\ fetchDataBegin(t)
            /\ UNCHANGED isAuthChecking
       ELSE /\ IF t.out \in {"false", "auth"}
               THEN isAuthenticated' = FALSE /\ isAuthRequired' = TRUE
               ELSE UNCHANGED <<isAuthenticated, isAuthRequired>>
            /\ isAuthChecking' = FALSE
            /\ tasks' = DropTask(t)
            /\ UNCHANGED <<loading, error>>
    /\ UNCHANGED <<importVars, configs>>
    /\ UNCHANGED formVars /\ downloaded' = <<>>
    /\ sortClicked' = Null /\ warned' = Null /\ surfaced' = ""
    /\ UNCHANGED <<groups, sortMode, currentSortingGroupId, db, opsStarted, startGroups,
                   refreshed>>
    /\ Rerender

\* handleLogin after `await api.login(...)`.
handleLoginResume(t) ==
    /\ t.kind = "login" /\ t.pc = "resp"
    /\ IF t.out = "ok"
       THEN /\ isAuthenticated' = TRUE
            /\ isAuthRequired' = FALSE
            /\ fetchDataBegin(t)
            /\ surfaced' = ""
       ELSE /\ handleError("login")
            /\ isAuthenticated' = FALSE
            /\ tasks' = DropTask(t)
            /\ UNCHANGED <<isAuthRequired, loading, error>>
    /\ UNCHANGED <<importVars, configs>>
    /\ UNCHANGED formVars /\ downloaded' = <<>>
    /\ sortClicked' = Null /\ warned' = Null
    /\ UNCHANGED <<groups, sortMode, currentSortingGroupId, isAuthChecking, db, opsStarted,
                   startGroups, refreshed>>
    /\ Rerender

\* handleSaveGroupOrder / handleSaveSiteOrder after `await api.update...Order(...)`:
\* a true result goes on to fetchData, anything else is thrown to the catch block.
handleSaveOrderResumeAnyResult(t) ==
    /\ t.kind \in {"saveGroupOrder", "saveSiteOrder"} /\ t.pc = "resp"
    /\ fetchDataBegin(t)
    /\ surfaced' = ""
    /\ UNCHANGED <<importVars, configs>>
    /\ UNCHANGED formVars /\ downloaded' = <<>>
    /\ sortClicked' = Null /\ warned' = Null
    /\ UNCHANGED <<groups, sortMode, currentSortingGroupId, isAuthChecking, isAuthRequired,
                   isAuthenticated, db, opsStarted, startGroups, refreshed>>
    /\ Rerender

handleSaveOrderResume(t) ==
    /\ t.kind \in {"saveGroupOrder", "saveSiteOrder"} /\ t.pc = "resp"
    /\ IF t.out = "ok"
       THEN /\ fetchDataBegin(t)
            /\ surfaced' = ""
       ELSE /\ handleError(t.kind)
            /\ tasks' = DropTask(t)
            /\ UNCHANGED <<loading, error>>
    /\ UNCHANGED <<importVars, configs>>
    /\ UNCHANGED formVars /\ downloaded' = <<>>
    /\ sortClicked' = Null /\ warned' = Null
    /\ UNCHANGED <<groups, sortMode, currentSortingGroupId, isAuthChecking, isAuthRequired,
                   isAuthenticated, db, opsStarted, startGroups, refreshed>>
    /\ Rerender

\* handleSiteDelete after `await api.deleteSite(siteId)`: the result is not looked at.
handleSiteDeleteResume(t) ==
    /\ t.kind = "siteDelete" /\ t.pc = "resp"
    /\ IF t.out \in {"ok", "false"}
       THEN /\ fetchDataBegin(t)
            /\ surfaced' = ""
       ELSE /\ handleError(t.kind)
            /\ tasks' = DropTask(t)
            /\ UNCHANGED <<loading, error>>
    /\ UNCHANGED <<importVars, configs>>
    /\ UNCHANGED formVars /\ downloaded' = <<>>
    /\ sortClicked' = Null /\ warned' = Null
    /\ UNCHANGED <<groups, sortMode, currentSortingGroupId, isAuthChecking, isAuthRequired,
                   isAuthenticated, db, opsStarted, startGroups, refreshed>>
    /\ Rerender

-----------------------------------------------------------------------------
\* Sort sessions (App)

\* The menu entry is rendered in the toolbar branch for sortMode === SortMode.None.
GroupSortEntryAlwaysRendered == AppShown

GroupSortEntryRendered == AppShown /\ sortMode = "None"

startGroupSort ==
    /\ GroupSortEntryRendered
    /\ sortMode' = "GroupSort"
    /\ currentSortingGroupId' = Null
    /\ startGroups' = groups
    /\ refreshed' = FALSE
    /\ UNCHANGED <<importVars, configs>>
    /\ UNCHANGED formVars /\ downloaded' = <<>>
    /\ sortClicked' = Null /\ warned' = Null /\ surfaced' = ""
    /\ UNCHANGED <<groups, loading, error, isAuthChecking, isAuthRequired, isAuthenticated,
                   tasks, db, opsStarted>>
    /\ Rerender

startSiteSortKeepsGroup(groupId) ==
    /\ sortMode' = "SiteSort"
    /\ currentSortingGroupId' = currentSortingGroupId
    /\ startGroups' = groups
    /\ refreshed' = FALSE

startSiteSort(groupId) ==
    /\ sortMode' = "SiteSort"
    /\ currentSortingGroupId' = groupId
    /\ startGroups' = groups
    /\ refreshed' = FALSE

\* The cancel button is rendered in the toolbar branch for sortMode !== SortMode.None.
cancelSort ==
    /\ AppShown /\ sortMode # "None"
    /\ sortMode' = "None"
    /\ currentSortingGroupId' = Null
    /\ startGroups' = <<>>
    /\ refreshed' = FALSE
    /\ UNCHANGED <<importVars, configs>>
    /\ UNCHANGED formVars /\ downloaded' = <<>>
    /\ sortClicked' = Null /\ warned' = Null /\ surfaced' = ""
    /\ UNCHANGED <<groups, loading, error, isAuthChecking, isAuthRequired, isAuthenticated,
                   tasks, db, opsStarted>>
    /\ Rerender

\* The body shared by handleDragEnd and handleSiteDragEnd: nothing without a drop
\* target or when dropped on itself, else arrayMove between the two positions found.
dragEndSwap(list, active, over) ==
    LET oldIndex == FindIndex(list, active)
        newIndex == FindIndex(list, over)
    IN IF over # Null /\ active # over /\ oldIndex # 0 /\ newIndex # 0
       THEN arraySwap(list, oldIndex, newIndex)
       ELSE list

dragEnd(list, active, over) ==
    LET oldIndex == FindIndex(list, active)
        newIndex == FindIndex(list, over)
    IN IF over # Null /\ active # over /\ oldIndex # 0 /\ newIndex # 0
       THEN arrayMove(list, oldIndex, newIndex)
       ELSE list

\* onDragEnd of the DndContext that replaces the cards in GroupSort.
handleDragEnd(active, over) ==
    /\ ListShown /\ sortMode = "GroupSort"
    /\ groups' = dragEnd(groups, active, over)
    /\ UNCHANGED <<importVars, configs>>
    /\ UNCHANGED formVars /\ downloaded' = <<>>
    /\ sortClicked' = Null /\ warned' = Null /\ surfaced' = ""
    /\ UNCHANGED <<loading, error, sortMode, currentSortingGroupId, isAuthChecking,
                   isAuthRequired, isAuthenticated, tasks, db, opsStarted, startGroups,
                   refreshed>>
    /\ Rerender

\* groups.map((group, index) => ({ id, order_num: index })), and the same over sites.
OrderPairsKeepOrderNum(list) ==
    [k \in DOMAIN list |-> [id |-> list[k].id, order_num |-> list[k].order_num]]

OrderPairs(list) == [k \in DOMAIN list |-> [id |-> list[k].id, order_num |-> k - 1]]

\* The save button of the toolbar is rendered for sortMode === SortMode.GroupSort.
handleSaveGroupOrder ==
    /\ AppShown /\ sortMode = "GroupSort"
    /\ tasks' = AddTask(Task("saveGroupOrder", "call", Null, OrderPairs(groups)))
    /\ opsStarted' = opsStarted + 1
    /\ UNCHANGED <<importVars, configs>>
    /\ UNCHANGED formVars /\ downloaded' = <<>>
    /\ sortClicked' = Null /\ warned' = Null /\ surfaced' = ""
    /\ UNCHANGED <<groups, loading, error, sortMode, currentSortingGroupId, isAuthChecking,
                   isAuthRequired, isAuthenticated, cardVars, db, startGroups, refreshed>>

\* handleLogout: the menu entry is rendered when isAuthenticated.
handleLogout ==
    /\ AppShown /\ sortMode = "None" /\ isAuthenticated
    /\ isAuthenticated' = FALSE
    /\ isAuthRequired' = TRUE
    /\ groups' = <<>>
    /\ error' = "loggedOut"
    /\ UNCHANGED <<importVars, configs>>
    /\ UNCHANGED formVars /\ downloaded' = <<>>
    /\ sortClicked' = Null /\ warned' = Null /\ surfaced' = ""
    /\ UNCHANGED <<loading, sortMode, currentSortingGroupId, isAuthChecking, tasks, db,
                   opsStarted, startGroups, refreshed>>
    /\ Rerender

\* handleLogin up to `await api.login(...)`; the login form replaces the application.
handleLogin ==
    /\ ~isAuthChecking /\ isAuthRequired /\ ~isAuthenticated
    /\ \A k \in InFlight : k.kind # "login"
    /\ tasks' = AddTask(Task("login", "call", Null, <<>>))
    /\ opsStarted' = opsStarted + 1
    /\ UNCHANGED <<importVars, configs>>
    /\ UNCHANGED formVars /\ downloaded' = <<>>
    /\ sortClicked' = Null /\ warned' = Null /\ surfaced' = ""
    /\ UNCHANGED <<groups, loading, error, sortMode, currentSortingGroupId, isAuthChecking,
                   isAuthRequired, isAuthenticated, cardVars, db, startGroups, refreshed>>

-----------------------------------------------------------------------------
\* GroupCard

\* A card is mounted exactly when it has local state.
CardMounted(g) == g \in DOMAIN cardSites

MinSitesToSort == 2

\* handleSortClick: the sort button is rendered when the card is not the one being
\* edited and sortMode === 'None'; a group of fewer than two sites gets the warning.
TooFewSitesToSortOne(gs, g) == Len(SitesOf(gs, g)) < 1

TooFewSitesToSort(gs, g) == Len(SitesOf(gs, g)) < MinSitesToSort

SortButtonRendered(g) == CardMounted(g) /\ ~isCurrentEditingGroup(g) /\ sortMode = "None"

handleSortClick(g) ==
    /\ SortButtonRendered(g)
    /\ IF TooFewSitesToSort(groups, g)
       THEN /\ warned' = g
            /\ UNCHANGED <<sortMode, currentSortingGroupId, startGroups, refreshed>>
       ELSE /\ startSiteSort(g)
            /\ warned' = Null
    /\ UNCHANGED <<importVars, configs>>
    /\ UNCHANGED formVars /\ downloaded' = <<>>
    /\ sortClicked' = g
    /\ surfaced' = ""
    /\ UNCHANGED <<groups, loading, error, isAuthChecking, isAuthRequired, isAuthenticated,
                   cardVars, tasks, db, opsStarted>>

\* handleSiteDragEnd: the DndContext of the card is rendered for the edited group.
handleSiteDragEnd(g, active, over) ==
    /\ CardMounted(g) /\ isCurrentEditingGroup(g)
    /\ cardSites' = [cardSites EXCEPT ![g] = dragEnd(cardSites[g], active, over)]
    /\ UNCHANGED dialogVars
    /\ UNCHANGED <<importVars, configs>>
    /\ UNCHANGED formVars /\ downloaded' = <<>>
    /\ sortClicked' = Null /\ warned' = Null /\ surfaced' = ""
    /\ UNCHANGED <<groups, loading, error, sortMode, currentSortingGroupId, isAuthChecking,
                   isAuthRequired, isAuthenticated, tasks, db, opsStarted, startGroups,
                   refreshed>>

\* GroupCard.handleSaveSiteOrder -> App.handleSaveSiteOrder(group.id, sites) up to its await.
handleSaveSiteOrder(g) ==
    /\ CardMounted(g) /\ isCurrentEditingGroup(g)
    /\ tasks' = AddTask(Task("saveSiteOrder", "call", g, OrderPairs(cardSites[g])))
    /\ opsStarted' = opsStarted + 1
    /\ UNCHANGED <<importVars, configs>>
    /\ UNCHANGED formVars /\ downloaded' = <<>>
    /\ sortClicked' = Null /\ warned' = Null /\ surfaced' = ""
    /\ UNCHANGED <<groups, loading, error, sortMode, currentSortingGroupId, isAuthChecking,
                   isAuthRequired, isAuthenticated, cardVars, db, startGroups, refreshed>>

\* handleSiteDelete up to its await, from a SiteCard of a card outside a sort session.
handleSiteDelete(g, siteId) ==
    /\ CardMounted(g) /\ sortMode = "None"
    /\ siteId \in Ids(SitesOf(groups, g))
    /\ tasks' = AddTask(Task("siteDelete", "call", siteId, <<>>))
    /\ opsStarted' = opsStarted + 1
    /\ UNCHANGED <<importVars, configs>>
    /\ UNCHANGED formVars /\ downloaded' = <<>>
    /\ sortClicked' = Null /\ warned' = Null /\ surfaced' = ""
    /\ UNCHANGED <<groups, loading, error, sortMode, currentSortingGroupId, isAuthChecking,
                   isAuthRequired, isAuthenticated, cardVars, db, startGroups, refreshed>>

\* handleGroupDelete up to its await: the edit button of a card is rendered outside
\* a sort session, the dialog it opens calls onDelete on the confirming click.
handleGroupDelete(g) ==
    /\ CardMounted(g) /\ sortMode = "None"
    /\ tasks' = AddTask(Task("groupDelete", "call", g, <<>>))
    /\ opsStarted' = opsStarted + 1
    /\ UNCHANGED <<importVars, configs>>
    /\ UNCHANGED formVars /\ downloaded' = <<>>
    /\ sortClicked' = Null /\ warned' = Null /\ surfaced' = ""
    /\ UNCHANGED <<groups, loading, error, sortMode, currentSortingGroupId, isAuthChecking,
                   isAuthRequired, isAuthenticated, cardVars, db, startGroups, refreshed>>

\* handleGroupDelete after `await api.deleteGroup(groupId)`: the result is not looked at.
handleGroupDeleteResumeNoFetch(t) ==
    /\ t.kind = "groupDelete" /\ t.pc = "resp"
    /\ IF t.out \in {"ok", "false"} THEN surfaced' = "" ELSE handleError(t.kind)
    /\ tasks' = DropTask(t)
    /\ UNCHANGED <<importVars, configs>>
    /\ UNCHANGED formVars /\ downloaded' = <<>>
    /\ sortClicked' = Null /\ warned' = Null
    /\ UNCHANGED <<groups, loading, error, sortMode, currentSortingGroupId, isAuthChecking,
                   isAuthRequired, isAuthenticated, db, opsStarted, startGroups, refreshed>>
    /\ Rerender

handleGroupDeleteResume(t) ==
    /\ t.kind = "groupDelete" /\ t.pc = "resp"
    /\ IF t.out \in {"ok", "false"}
       THEN /\ fetchDataBegin(t)
            /\ surfaced' = ""
       ELSE /\ handleError(t.kind)
            /\ tasks' = DropTask(t)
            /\ UNCHANGED <<loading, error>>
    /\ UNCHANGED <<importVars, configs>>
    /\ UNCHANGED formVars /\ downloaded' = <<>>
    /\ sortClicked' = Null /\ warned' = Null
    /\ UNCHANGED <<groups, sortMode, currentSortingGroupId, isAuthChecking, isAuthRequired,
                   isAuthenticated, db, opsStarted, startGroups, refreshed>>
    /\ Rerender

-----------------------------------------------------------------------------
\* Import dialog

\* The menu of the toolbar is rendered for sortMode === SortMode.None; an open
\* dialog is modal.
ImportEntryRendered == AppShown /\ sortMode = "None" /\ ~openImport

ImportDialogShown == AppShown /\ openImport

\* disabled={!importFile || importLoading}
ImportButtonEnabled == ImportDialogShown /\ importFile # NoFile /\ ~importLoading

handleOpenImport ==
    /\ ImportEntryRendered
    /\ importFile' = NoFile
    /\ openImport' = TRUE
    /\ UNCHANGED formVars /\ downloaded' = <<>>
    /\ sortClicked' = Null /\ warned' = Null /\ surfaced' = ""
    /\ UNCHANGED <<groups, loading, error, sortMode, currentSortingGroupId, isAuthChecking,
                   isAuthRequired, isAuthenticated, cardVars, tasks, db, opsStarted,
                   startGroups, refreshed, configs, importLoading, importResultMessage>>

handleCloseImport ==
    /\ ImportDialogShown
    /\ openImport' = FALSE
    /\ UNCHANGED formVars /\ downloaded' = <<>>
    /\ sortClicked' = Null /\ warned' = Null /\ surfaced' = ""
    /\ UNCHANGED <<groups, loading, error, sortMode, currentSortingGroupId, isAuthChecking,
                   isAuthRequired, isAuthenticated, cardVars, tasks, db, opsStarted,
                   startGroups, refreshed, configs, importFile, importLoading,
                   importResultMessage>>

handleFileSelect(file) ==
    /\ ImportDialogShown
    /\ importFile' = file
    /\ UNCHANGED formVars /\ downloaded' = <<>>
    /\ sortClicked' = Null /\ warned' = Null /\ surfaced' = ""
    /\ UNCHANGED <<groups, loading, error, sortMode, currentSortingGroupId, isAuthChecking,
                   isAuthRequired, isAuthenticated, cardVars, tasks, db, opsStarted,
                   startGroups, refreshed, configs, openImport, importLoading,
                   importResultMessage>>

\* handleImportData up to its return: setImportLoading(true), readAsText is started
\* and the callbacks are set, then the finally block runs setImportLoading(false)
\* before anything has been read.
handleImportData ==
    /\ ImportButtonEnabled
    /\ importLoading' = FALSE
    /\ tasks' = AddTask(Task("import", "read", importFile, <<>>))
    /\ opsStarted' = opsStarted + 1
    /\ UNCHANGED formVars /\ downloaded' = <<>>
    /\ sortClicked' = Null /\ warned' = Null /\ surfaced' = ""
    /\ UNCHANGED <<groups, loading, error, sortMode, currentSortingGroupId, isAuthChecking,
                   isAuthRequired, isAuthenticated, cardVars, db, startGroups, refreshed,
                   configs, openImport, importFile, importResultMessage>>

\* The message handleError gets for a section the checks reject.
FormatError(section) ==
    IF section = "groups" THEN "import: groups"
    ELSE IF section = "sites" THEN "import: sites"
    ELSE "import: configs"

\* fileReader.onload up to `await api.importData(importData)`, or fileReader.onerror.
fileReaderOnload(t) ==
    /\ t.kind = "import" /\ t.pc = "read"
    /\ \E read \in BOOLEAN :
          LET parsed == Content(t.arg)
              section == RejectedSection(parsed)
          IN IF read /\ section = ""
             THEN /\ tasks' = ReplaceTask(t, [t EXCEPT !.pc = "call", !.payload = << parsed >>])
                  /\ surfaced' = ""
                  /\ UNCHANGED importLoading
             ELSE /\ handleError(IF read THEN FormatError(section) ELSE "import: read")
                  /\ importLoading' = FALSE
                  /\ tasks' = DropTask(t)
    /\ UNCHANGED formVars /\ downloaded' = <<>>
    /\ sortClicked' = Null /\ warned' = Null
    /\ UNCHANGED <<groups, loading, error, sortMode, currentSortingGroupId, isAuthChecking,
                   isAuthRequired, isAuthenticated, cardVars, db, opsStarted, startGroups,
                   refreshed, configs, openImport, importFile, importResultMessage>>

\* The onload callback after `await api.importData(importData)`.
handleImportResumeNoRefresh(t) ==
    /\ t.kind = "import" /\ t.pc = "resp"
    /\ IF t.out = "ok"
       THEN importResultMessage' = t.snap /\ surfaced' = ""
       ELSE handleError("import") /\ UNCHANGED importResultMessage
    /\ importLoading' = FALSE
    /\ tasks' = DropTask(t)
    /\ UNCHANGED formVars /\ downloaded' = <<>>
    /\ sortClicked' = Null /\ warned' = Null
    /\ UNCHANGED <<groups, loading, error, sortMode, currentSortingGroupId, isAuthChecking,
                   isAuthRequired, isAuthenticated, db, opsStarted, startGroups, refreshed,
                   configs, openImport, importFile>>
    /\ Rerender

handleImportResume(t) ==
    /\ t.kind = "import" /\ t.pc = "resp"
    /\ IF t.out = "ok"
       THEN /\ importResultMessage' = t.snap
            /\ fetchDataBegin(t)
            /\ surfaced' = ""
            /\ UNCHANGED importLoading
       ELSE /\ handleError("import")
            /\ importLoading' = FALSE
            /\ tasks' = DropTask(t)
            /\ UNCHANGED <<loading, error, importResultMessage>>
    /\ UNCHANGED formVars /\ downloaded' = <<>>
    /\ sortClicked' = Null /\ warned' = Null
    /\ UNCHANGED <<groups, sortMode, currentSortingGroupId, isAuthChecking, isAuthRequired,
                   isAuthenticated, db, opsStarted, startGroups, refreshed, configs,
                   openImport, importFile>>
    /\ Rerender

-----------------------------------------------------------------------------
\* Dialogs for a new group and a new site (App)

\* What the handlers of the dialogs leave alone.
shellVars == <<groups, loading, error, sortMode, currentSortingGroupId, isAuthChecking,
               isAuthRequired, isAuthenticated, db, startGroups, refreshed, configs, importVars>>

\* A MUI Dialog is modal: while one is open nothing behind it takes a click.
NoDialogNeverBlocks == TRUE

NoDialog == ~openAddGroup /\ ~openAddSite /\ ~openImport /\ editDialogOpen = Null

\* What the user may type into the text fields.
NameInputs == {"", "Web"}

UrlInputs == {"", "https://web.example"}

PaddedInputs == {" ", " Web "}

\* !value of a string: only the empty string is falsy.
IsEmpty(str) == str = ""

\* String.prototype.trim on the names a field can hold.
Trim(str) == IF str = " " THEN "" ELSE IF str = " Web " THEN "Web" ELSE str

\* The button is in the toolbar branch for sortMode === SortMode.None.
handleOpenAddGroup ==
    /\ AppShown /\ sortMode = "None"
    /\ newGroup' = [name |-> "", order_num |-> Len(groups)]
    /\ openAddGroup' = TRUE
    /\ sortClicked' = Null /\ warned' = Null /\ surfaced' = "" /\ downloaded' = <<>>
    /\ UNCHANGED <<shellVars, cardVars, tasks, opsStarted, openAddSite, newSite>>

handleCloseAddGroup ==
    /\ AppShown /\ openAddGroup
    /\ openAddGroup' = FALSE
    /\ sortClicked' = Null /\ warned' = Null /\ surfaced' = "" /\ downloaded' = <<>>
    /\ UNCHANGED <<shellVars, cardVars, tasks, opsStarted, newGroup, openAddSite, newSite>>

handleGroupInputChange(value) ==
    /\ AppShown /\ openAddGroup
    /\ newGroup' = [newGroup EXCEPT !.name = value]
    /\ sortClicked' = Null /\ warned' = Null /\ surfaced' = "" /\ downloaded' = <<>>
    /\ UNCHANGED <<shellVars, cardVars, tasks, opsStarted, openAddGroup, openAddSite, newSite>>

\* handleCreateGroup up to its await, or up to the return for an empty name.
handleCreateGroupUnchecked ==
    /\ AppShown /\ openAddGroup
    /\ tasks' = AddTask(Task("createGroup", "call", Null, << newGroup >>))
    /\ opsStarted' = opsStarted + 1
    /\ sortClicked' = Null /\ warned' = Null /\ surfaced' = "" /\ downloaded' = <<>>
    /\ UNCHANGED <<shellVars, cardVars, formVars>>

handleCreateGroup ==
    /\ AppShown /\ openAddGroup
    /\ IF IsEmpty(newGroup.name)
       THEN /\ handleError("createGroup: empty name")
            /\ UNCHANGED <<tasks, opsStarted>>
       ELSE /\ tasks' = AddTask(Task("createGroup", "call", Null, << newGroup >>))
            /\ opsStarted' = opsStarted + 1
            /\ surfaced' = ""
    /\ sortClicked' = Null /\ warned' = Null /\ downloaded' = <<>>
    /\ UNCHANGED <<shellVars, cardVars, formVars>>

\* Math.max over the order_num of the sites, plus one; 0 for a group without sites.
NextOrderNum(sites) ==
    IF sites = <<>> THEN 0
    ELSE 1 + CHOOSE m \in {sites[k].order_num : k \in DOMAIN sites} :
                 \A k \in DOMAIN sites : sites[k].order_num <= m

\* The button of a card is rendered for sortMode === 'None'.
handleOpenAddSite(groupId) ==
    /\ CardMounted(groupId) /\ sortMode = "None"
    /\ newSite' = [name |-> "", url |-> "", group_id |-> groupId,
                   order_num |-> NextOrderNum(SitesOf(groups, groupId))]
    /\ openAddSite' = TRUE
    /\ sortClicked' = Null /\ warned' = Null /\ surfaced' = "" /\ downloaded' = <<>>
    /\ UNCHANGED <<shellVars, cardVars, tasks, opsStarted, openAddGroup, newGroup>>

handleCloseAddSite ==
    /\ AppShown /\ openAddSite
    /\ openAddSite' = FALSE
    /\ sortClicked' = Null /\ warned' = Null /\ surfaced' = "" /\ downloaded' = <<>>
    /\ UNCHANGED <<shellVars, cardVars, tasks, opsStarted, openAddGroup, newGroup, newSite>>

handleSiteInputChange(field, value) ==
    /\ AppShown /\ openAddSite
    /\ newSite' = [newSite EXCEPT ![field] = value]
    /\ sortClicked' = Null /\ warned' = Null /\ surfaced' = "" /\ downloaded' = <<>>
    /\ UNCHANGED <<shellVars, cardVars, tasks, opsStarted, openAddGroup, newGroup, openAddSite>>

\* handleCreateSite up to its await, or up to the return for an empty name or url.
handleCreateSite ==
    /\ AppShown /\ openAddSite
    /\ IF IsEmpty(newSite.name) \/ IsEmpty(newSite.url)
       THEN /\ handleError("createSite: empty name or url")
            /\ UNCHANGED <<tasks, opsStarted>>
       ELSE /\ tasks' = AddTask(Task("createSite", "call", Null, << newSite >>))
            /\ opsStarted' = opsStarted + 1
            /\ surfaced' = ""
    /\ sortClicked' = Null /\ warned' = Null /\ downloaded' = <<>>
    /\ UNCHANGED <<shellVars, cardVars, formVars>>

\* handleCreateGroup, handleCreateSite and handleGroupUpdate after their first await:
\* the result is not looked at, a rejection goes to the catch block.
handleMutationResume(t) ==
    /\ t.kind \in {"createGroup", "createSite", "groupUpdate"} /\ t.pc = "resp"
    /\ IF t.out \in {"ok", "false"}
       THEN /\ fetchDataBegin(t)
            /\ surfaced' = ""
       ELSE /\ handleError(t.kind)
            /\ tasks' = DropTask(t)
            /\ UNCHANGED <<loading, error>>
    /\ UNCHANGED <<importVars, configs>>
    /\ UNCHANGED formVars /\ downloaded' = <<>>
    /\ sortClicked' = Null /\ warned' = Null
    /\ UNCHANGED <<groups, sortMode, currentSortingGroupId, isAuthChecking, isAuthRequired,
                   isAuthenticated, db, opsStarted, startGroups, refreshed>>
    /\ Rerender

-----------------------------------------------------------------------------
\* EditGroupDialog of a card (GroupCard, EditGroupDialog.tsx)

\* handleEditClick: the edit button of a card is rendered for sortMode === 'None';
\* the effect on [group, open] sets the name and hides the confirmation.
handleEditClick(g) ==
    /\ CardMounted(g) /\ sortMode = "None"
    /\ editDialogOpen' = g
    /\ dialogName' = groups[FindIndex(groups, g)].name
    /\ showDeleteConfirm' = FALSE
    /\ sortClicked' = Null /\ warned' = Null /\ surfaced' = "" /\ downloaded' = <<>>
    /\ UNCHANGED <<shellVars, cardSites, tasks, opsStarted, formVars>>

EditDialogShown == AppShown /\ editDialogOpen # Null /\ CardMounted(editDialogOpen)

\* onClose: setEditDialogOpen(false), from the backdrop or the cancel button that is
\* rendered while the confirmation is hidden.
onClose ==
    /\ EditDialogShown
    /\ editDialogOpen' = Null /\ dialogName' = "" /\ showDeleteConfirm' = FALSE
    /\ sortClicked' = Null /\ warned' = Null /\ surfaced' = "" /\ downloaded' = <<>>
    /\ UNCHANGED <<shellVars, cardSites, tasks, opsStarted, formVars>>

setName(value) ==
    /\ EditDialogShown
    /\ dialogName' = value
    /\ sortClicked' = Null /\ warned' = Null /\ surfaced' = "" /\ downloaded' = <<>>
    /\ UNCHANGED <<shellVars, cardSites, tasks, opsStarted, formVars, editDialogOpen,
                   showDeleteConfirm>>

\* handleSave: the save button is rendered while the confirmation is hidden and is
\* disabled for a blank name, and the handler returns for one; onSave is
\* GroupCard.handleUpdateGroup, which calls App.handleGroupUpdate (up to its await)
\* and closes the dialog.
handleSave ==
    /\ EditDialogShown /\ ~showDeleteConfirm
    /\ ~IsEmpty(Trim(dialogName))
    /\ tasks' = AddTask(Task("groupUpdate", "call", editDialogOpen,
                             << [name |-> Trim(dialogName)] >>))
    /\ opsStarted' = opsStarted + 1
    /\ editDialogOpen' = Null /\ dialogName' = "" /\ showDeleteConfirm' = FALSE
    /\ sortClicked' = Null /\ warned' = Null /\ surfaced' = "" /\ downloaded' = <<>>
    /\ UNCHANGED <<shellVars, cardSites, formVars>>

\* handleDelete: both delete buttons call it; the first click shows the confirmation,
\* a click while it is shown calls onDelete, which is GroupCard.handleDeleteGroup:
\* App.handleGroupDelete (up to its await) and the dialog is closed.
handleDeleteAtOnce ==
    /\ EditDialogShown
    /\ tasks' = AddTask(Task("groupDelete", "call", editDialogOpen, <<>>))
    /\ opsStarted' = opsStarted + 1
    /\ editDialogOpen' = Null /\ dialogName' = "" /\ showDeleteConfirm' = FALSE
    /\ sortClicked' = Null /\ warned' = Null /\ surfaced' = "" /\ downloaded' = <<>>
    /\ UNCHANGED <<shellVars, cardSites, formVars>>

handleDelete ==
    /\ EditDialogShown
    /\ IF ~showDeleteConfirm
       THEN /\ showDeleteConfirm' = TRUE
            /\ UNCHANGED <<tasks, opsStarted, editDialogOpen, dialogName>>
       ELSE /\ tasks' = AddTask(Task("groupDelete", "call", editDialogOpen, <<>>))
            /\ opsStarted' = opsStarted + 1
            /\ editDialogOpen' = Null /\ dialogName' = "" /\ showDeleteConfirm' = FALSE
    /\ sortClicked' = Null /\ warned' = Null /\ surfaced' = "" /\ downloaded' = <<>>
    /\ UNCHANGED <<shellVars, cardSites, formVars>>

\* The cancel button that is rendered while the confirmation is shown.
cancelDeleteConfirm ==
    /\ EditDialogShown /\ showDeleteConfirm
    /\ showDeleteConfirm' = FALSE
    /\ sortClicked' = Null /\ warned' = Null /\ surfaced' = "" /\ downloaded' = <<>>
    /\ UNCHANGED <<shellVars, cardSites, tasks, opsStarted, formVars, editDialogOpen,
                   dialogName>>

-----------------------------------------------------------------------------
\* Export

RECURSIVE allSites(_)
allSites(gs) ==
    IF gs = <<>> THEN <<>>
    ELSE (IF Len(Head(gs).sites) > 0 THEN Head(gs).sites ELSE <<>>) \o allSites(Tail(gs))

\* The object handleExportData hands to JSON.stringify, as JSON.parse gives it back.
exportDataFirstGroupOnly(gs, cfg) ==
    [groups |-> JsArray([k \in DOMAIN gs |->
                    [id |-> gs[k].id, name |-> gs[k].name, order_num |-> gs[k].order_num]]),
     sites |-> JsArray(IF gs = <<>> THEN <<>> ELSE Head(gs).sites),
     configs |-> JsObject(cfg),
     version |-> JsString,
     exportDate |-> JsString]

exportData(gs, cfg) ==
    [groups |-> JsArray([k \in DOMAIN gs |->
                    [id |-> gs[k].id, name |-> gs[k].name, order_num |-> gs[k].order_num]]),
     sites |-> JsArray(allSites(gs)),
     configs |-> JsObject(cfg),
     version |-> JsString,
     exportDate |-> JsString]

\* handleExportData: the menu entry is in the toolbar branch for sortMode ===
\* SortMode.None; setLoading(true) and, in the finally block, setLoading(false).
handleExportData ==
    /\ AppShown /\ sortMode = "None"
    /\ downloaded' = << exportData(groups, configs) >>
    /\ loading' = FALSE
    /\ sortClicked' = Null /\ warned' = Null /\ surfaced' = ""
    /\ UNCHANGED <<groups, error, sortMode, currentSortingGroupId, isAuthChecking,
                   isAuthRequired, isAuthenticated, db, startGroups, refreshed, configs,
                   importVars, tasks, opsStarted, formVars>>
    /\ Rerender

-----------------------------------------------------------------------------

Next ==
    \/ \E t \in InFlight : ServerCall(t)
    \/ \E t \in InFlight : ServerGetGroups(t)
    \/ \E t \in InFlight : ServerGetSites(t)
    \/ \E t \in InFlight : fetchDataEnd(t)
    \/ \E t \in InFlight : fetchConfigsEnd(t)
    \/ \E t \in InFlight : checkAuthStatusResume(t)
    \/ \E t \in InFlight : handleLoginResume(t)
    \/ \E t \in InFlight : handleSaveOrderResume(t)
    \/ \E t \in InFlight : handleSiteDeleteResume(t)
    \/ startGroupSort
    \/ cancelSort
    \/ \E a \in Ids(groups), o \in Ids(groups) \cup {Null} : handleDragEnd(a, o)
    \/ CanStart /\ handleSaveGroupOrder
    \/ handleLogout
    \/ CanStart /\ handleLogin
    \/ \E g \in DOMAIN cardSites : handleSortClick(g)
    \/ \E g \in DOMAIN cardSites :
          \E a \in Ids(cardSites[g]), o \in Ids(cardSites[g]) \cup {Null} :
              handleSiteDragEnd(g, a, o)
    \/ \E g \in DOMAIN cardSites : CanStart /\ handleSaveSiteOrder(g)
    \/ \E g \in DOMAIN cardSites :
          \E s \in Ids(SitesOf(groups, g)) : CanStart /\ handleSiteDelete(g, s)

Spec == Init /\ [][Next]_vars

-----------------------------------------------------------------------------
\* A sort session opened on an arbitrary list: the staging buffer, its moves and
\* the request a commit submits; the session is followed up to its commit.

MaxLen == 4

OrderNumChoices == {"dense", "equal", "gaps"}

\* order_num values as storage may hold them, in ascending order as fetchData gets them.
StoredOrderNum(c, k) == IF c = "dense" THEN k - 1 ELSE IF c = "equal" THEN 5 ELSE 2 * k + 3

BufferGroups(n, c) ==
    [k \in 1..n |-> [id |-> k, name |-> "Dev", order_num |-> StoredOrderNum(c, k),
                     sites |-> <<>>]]

BufferSites(n, c) ==
    [k \in 1..n |-> [id |-> 10 + k, group_id |-> 1, order_num |-> StoredOrderNum(c, k)]]

InitBuffer ==
    /\ \E c \in OrderNumChoices :
          \/ \E n \in 1..MaxLen :
                /\ groups = BufferGroups(n, c)
                /\ sortMode = "GroupSort"
                /\ currentSortingGroupId = Null
                /\ cardSites = [g \in {} |-> <<>>]
          \/ \E n \in MinSitesToSort..MaxLen :
                /\ groups = << [id |-> 1, name |-> "Dev", order_num |-> 0,
                               sites |-> BufferSites(n, c)] >>
                /\ sortMode = "SiteSort"
                /\ currentSortingGroupId = 1
                /\ cardSites = [g \in {1} |-> BufferSites(n, c)]
    /\ db = [groups |-> [k \in DOMAIN groups |->
                            [id |-> groups[k].id, name |-> groups[k].name,
                             order_num |-> groups[k].order_num]],
             sites |-> IF sortMode = "SiteSort" THEN groups[1].sites ELSE <<>>,
             configs |-> NoConfigs]
    /\ loading = FALSE
    /\ error = "null"
    /\ isAuthChecking = FALSE
    /\ isAuthRequired = FALSE
    /\ isAuthenticated = TRUE
    /\ surfaced = ""
    /\ warned = Null
    /\ tasks = EmptyBag
    /\ opsStarted = 0
    /\ sortClicked = Null
    /\ startGroups = groups
    /\ refreshed = FALSE
    /\ configs = DEFAULT_CONFIGS
    /\ openImport = FALSE
    /\ importFile = NoFile
    /\ importLoading = FALSE
    /\ importResultMessage = <<>>
    /\ FormsClosed

NextBuffer ==
    \/ \E a \in Ids(groups), o \in Ids(groups) \cup {Null} :
          tasks = EmptyBag /\ handleDragEnd(a, o)
    \/ \E g \in DOMAIN cardSites :
          \E a \in Ids(cardSites[g]), o \in Ids(cardSites[g]) \cup {Null} :
              tasks = EmptyBag /\ handleSiteDragEnd(g, a, o)
    \/ tasks = EmptyBag /\ handleSaveGroupOrder
    \/ \E g \in DOMAIN cardSites : tasks = EmptyBag /\ handleSaveSiteOrder(g)

SpecBuffer == InitBuffer /\ [][NextBuffer]_vars

-----------------------------------------------------------------------------
\* Overlapping handlers: the application loaded and signed in, several handlers
\* awaiting their answers at once.

MaxOverlap == 2

CanOverlap == opsStarted < MaxOps /\ BagCardinality(tasks) < MaxOverlap

\* What fetchData builds from storage when nothing changes in between.
StoreOf(d) ==
    [k \in DOMAIN getGroups(d) |->
        [id |-> getGroups(d)[k].id,
         name |-> getGroups(d)[k].name,
         order_num |-> getGroups(d)[k].order_num,
         sites |-> getSites(d, getGroups(d)[k].id)]]

EmptyStorage == [groups |-> <<>>, sites |-> <<>>, configs |-> NoConfigs]

\* The state after checkAuthStatus succeeded and its fetchData and fetchConfigs ended,
\* storage holding d.
LoadedFrom(d) ==
    /\ db = d
    /\ groups = StoreOf(db)
    /\ loading = FALSE
    /\ error = "null"
    /\ sortMode = "None"
    /\ currentSortingGroupId = Null
    /\ isAuthChecking = FALSE
    /\ isAuthRequired = FALSE
    /\ isAuthenticated = TRUE
    /\ surfaced = ""
    /\ cardSites = MountCards([g \in {} |-> <<>>], groups, TRUE)
    /\ warned = Null
    /\ tasks = EmptyBag
    /\ opsStarted = 0
    /\ sortClicked = Null
    /\ startGroups = <<>>
    /\ refreshed = FALSE
    /\ configs = Spread(DEFAULT_CONFIGS, getConfigs(db))
    /\ openImport = FALSE
    /\ importFile = NoFile
    /\ importLoading = FALSE
    /\ importResultMessage = <<>>
    /\ FormsClosed

InitLoaded ==
    LoadedFrom([groups |-> InitialGroupRows, sites |-> InitialSiteRows, configs |-> NoConfigs])

NextOverlap ==
    \/ \E t \in InFlight : ServerCall(t)
    \/ \E t \in InFlight : ServerGetGroups(t)
    \/ \E t \in InFlight : ServerGetSites(t)
    \/ \E t \in InFlight : fetchDataEnd(t)
    \/ \E t \in InFlight : handleSaveOrderResume(t)
    \/ \E t \in InFlight : handleSiteDeleteResume(t)
    \/ \E t \in InFlight : handleGroupDeleteResume(t)
    \/ startGroupSort
    \/ cancelSort
    \/ CanOverlap /\ handleSaveGroupOrder
    \/ \E g \in DOMAIN cardSites :
          \E s \in Ids(SitesOf(groups, g)) : CanOverlap /\ handleSiteDelete(g, s)
    \/ \E g \in DOMAIN cardSites : CanOverlap /\ handleGroupDelete(g)

SpecOverlap == InitLoaded /\ [][NextOverlap]_vars

-----------------------------------------------------------------------------
\* Imports: the application loaded and signed in over an empty storage.

NextImport ==
    \/ handleOpenImport
    \/ handleCloseImport
    \/ \E file \in ImportFiles : handleFileSelect(file)
    \/ CanStart /\ handleImportData
    \/ \E t \in InFlight : fileReaderOnload(t)
    \/ \E t \in InFlight : ServerCall(t)
    \/ \E t \in InFlight : handleImportResume(t)
    \/ \E t \in InFlight : ServerGetGroups(t)
    \/ \E t \in InFlight : ServerGetSites(t)
    \/ \E t \in InFlight : fetchDataEnd(t)
    \/ \E t \in InFlight : fetchConfigsEnd(t)

SpecImport == LoadedFrom(EmptyStorage) /\ [][NextImport]_vars

\* The same with nothing but the button's own gate between two clicks on it.
NextImportOverlap ==
    \/ handleOpenImport
    \/ handleCloseImport
    \/ \E file \in ImportFiles : handleFileSelect(file)
    \/ CanOverlap /\ handleImportData
    \/ \E t \in InFlight : fileReaderOnload(t)
    \/ \E t \in InFlight : ServerCall(t)
    \/ \E t \in InFlight : handleImportResume(t)
    \/ \E t \in InFlight : ServerGetGroups(t)
    \/ \E t \in InFlight : ServerGetSites(t)
    \/ \E t \in InFlight : fetchDataEnd(t)
    \/ \E t \in InFlight : fetchConfigsEnd(t)

SpecImportOverlap == LoadedFrom(EmptyStorage) /\ [][NextImportOverlap]_vars

-----------------------------------------------------------------------------
\* Exports next to site deletions and site sort sessions, over the loaded application.

NextExport ==
    \/ handleExportData
    \/ \E t \in InFlight : ServerCall(t)
    \/ \E t \in InFlight : ServerGetGroups(t)
    \/ \E t \in InFlight : ServerGetSites(t)
    \/ \E t \in InFlight : fetchDataEnd(t)
    \/ \E t \in InFlight : handleSaveOrderResume(t)
    \/ \E t \in InFlight : handleSiteDeleteResume(t)
    \/ cancelSort
    \/ \E g \in DOMAIN cardSites : handleSortClick(g)
    \/ \E g \in DOMAIN cardSites :
          \E a \in Ids(cardSites[g]), o \in Ids(cardSites[g]) \cup {Null} :
              handleSiteDragEnd(g, a, o)
    \/ \E g \in DOMAIN cardSites : CanStart /\ handleSaveSiteOrder(g)
    \/ \E g \in DOMAIN cardSites :
          \E s \in Ids(SitesOf(groups, g)) : CanStart /\ handleSiteDelete(g, s)

SpecExport == InitLoaded /\ [][NextExport]_vars

-----------------------------------------------------------------------------
\* The dialogs, and exports between them. A click behind an open dialog is no step.

\* The dialogs are followed one request at a time: a click that would start a
\* second one is left out.
CanSubmit == opsStarted < MaxOps /\ tasks = EmptyBag

\* A storage of one group with two sites.
OneGroupStorage ==
    [groups |-> << [id |-> 1, name |-> "Dev", order_num |-> 5] >>,
     sites |-> << [id |-> 11, group_id |-> 1, url |-> "https://git.example/repo",
                   name |-> "Repo", order_num |-> 4],
                  [id |-> 12, group_id |-> 1, url |-> "https://ci.example",
                   name |-> "CI", order_num |-> 6] >>,
     configs |-> NoConfigs]

NextForms ==
    \/ NoDialog /\ handleOpenAddGroup
    \/ handleCloseAddGroup
    \/ \E value \in NameInputs : handleGroupInputChange(value)
    \/ (IsEmpty(newGroup.name) \/ CanSubmit) /\ handleCreateGroup
    \/ \E g \in DOMAIN cardSites : NoDialog /\ handleOpenAddSite(g)
    \/ handleCloseAddSite
    \/ \E value \in NameInputs : handleSiteInputChange("name", value)
    \/ \E value \in UrlInputs : handleSiteInputChange("url", value)
    \/ (IsEmpty(newSite.name) \/ IsEmpty(newSite.url) \/ CanSubmit) /\ handleCreateSite
    \/ \E g \in DOMAIN cardSites : NoDialog /\ handleEditClick(g)
    \/ onClose
    \/ \E value \in PaddedInputs : setName(value)
    \/ CanSubmit /\ handleSave
    \/ (showDeleteConfirm => CanSubmit) /\ handleDelete
    \/ cancelDeleteConfirm
    \/ NoDialog /\ handleExportData
    \/ \E t \in InFlight : ServerCall(t)
    \/ \E t \in InFlight : ServerGetGroups(t)
    \/ \E t \in InFlight : ServerGetSites(t)
    \/ \E t \in InFlight : fetchDataEnd(t)
    \/ \E t \in InFlight : handleMutationResume(t)
    \/ \E t \in InFlight : handleGroupDeleteResume(t)

SpecForms == LoadedFrom(OneGroupStorage) /\ [][NextForms]_vars

-----------------------------------------------------------------------------
\* What can be clicked: the buttons that start a sort session, open a dialog or
\* delete a site, and the dialogs with their fields filled in.

NextSurface ==
    \/ NoDialog /\ startGroupSort
    \/ NoDialog /\ cancelSort
    \/ \E g \in DOMAIN cardSites : NoDialog /\ handleSortClick(g)
    \/ \E g \in DOMAIN cardSites :
          \E s \in Ids(SitesOf(groups, g)) : NoDialog /\ CanSubmit /\ handleSiteDelete(g, s)
    \/ NoDialog /\ handleOpenAddGroup
    \/ handleCloseAddGroup
    \/ \E value \in NameInputs \ {""} : handleGroupInputChange(value)
    \/ (IsEmpty(newGroup.name) \/ CanSubmit) /\ handleCreateGroup
    \/ \E g \in DOMAIN cardSites : NoDialog /\ handleOpenAddSite(g)
    \/ handleCloseAddSite
    \/ \E value \in NameInputs \ {""} : handleSiteInputChange("name", value)
    \/ \E value \in UrlInputs \ {""} : handleSiteInputChange("url", value)
    \/ (IsEmpty(newSite.name) \/ IsEmpty(newSite.url) \/ CanSubmit) /\ handleCreateSite
    \/ \E g \in DOMAIN cardSites : NoDialog /\ handleEditClick(g)
    \/ onClose
    \/ (showDeleteConfirm => CanSubmit) /\ handleDelete
    \/ \E t \in InFlight : ServerCall(t)
    \/ \E t \in InFlight : ServerGetGroups(t)
    \/ \E t \in InFlight : ServerGetSites(t)
    \/ \E t \in InFlight : fetchDataEnd(t)
    \/ \E t \in InFlight : handleMutationResume(t)
    \/ \E t \in InFlight : handleSiteDeleteResume(t)
    \/ \E t \in InFlight : handleGroupDeleteResume(t)

SpecSurface == LoadedFrom(OneGroupStorage) /\ [][NextSurface]_vars

-----------------------------------------------------------------------------
\* The import of the storage on its own: snapshots imported one after the other
\* into a storage that already holds rows

SeedGroups ==
    << [id |-> 1, name |-> "Dev", order_num |-> 0], [id |-> 2, name |-> "Ops", order_num |-> 1] >>

SeedSites ==
    << [id |-> 1, group_id |-> 1, url |-> "https://git.example/repo", name |-> "Repo",
        order_num |-> 0],
       [id |-> 2, group_id |-> 2, url |-> "https://git.example/repo", name |-> "Repo",
        order_num |-> 0],
       [id |-> 3, group_id |-> 1, url |-> "https://git.example/repo", name |-> "Mirror",
        order_num |-> 1] >>

\* The storages the imports start from: the first n seed groups, those of the first
\* m seed sites that are in them, and the site title stored or not.
Storages ==
    {[groups |-> SubSeq(SeedGroups, 1, n),
      sites |-> SelectSeq(SubSeq(SeedSites, 1, m), LAMBDA r : r.group_id <= n),
      configs |-> c] :
        n \in 0..Len(SeedGroups), m \in 0..Len(SeedSites),
        c \in {NoConfigs, [k \in {"site.title"} |-> "Y"]}}

InitReimport == \E d \in Storages : LoadedFrom(d)

\* The storage imports the snapshot of the file and answers with the statistics.
importDataset(file) ==
    /\ opsStarted < MaxOps
    /\ WellFormed(Content(file))
    /\ db' = importData(db, Content(file)).db
    /\ importResultMessage' = << importData(db, Content(file)).stats >>
    /\ opsStarted' = opsStarted + 1
    /\ UNCHANGED <<groups, loading, error, sortMode, currentSortingGroupId, isAuthChecking,
                   isAuthRequired, isAuthenticated, surfaced, cardVars, warned, tasks,
                   sortClicked, startGroups, refreshed, configs, openImport, importFile,
                   importLoading, formVars, downloaded>>

NextReimport == \E file \in ImportFiles : importDataset(file)

SpecReimport == InitReimport /\ [][NextReimport]_vars

-----------------------------------------------------------------------------
\* Properties

Commits == {"saveGroupOrder", "saveSiteOrder"}

IdsInOrder(list) == [k \in 1..Len(list) |-> list[k].id]

\* The staging buffer of the active session.
ActiveBuffer ==
    IF sortMode = "GroupSort" THEN groups
    ELSE IF sortMode = "SiteSort" /\ currentSortingGroupId \in DOMAIN cardSites
         THEN cardSites[currentSortingGroupId]
         ELSE <<>>

\* The step is the cancel of the active session: the mode goes to None and no
\* handler is started or resumed.
CancelStep == sortMode # "None" /\ sortMode' = "None" /\ tasks' = tasks

\* The step ends the commit handler that is task t.
CommitEnds(t) == t.kind \in Commits /\ tasks' = DropTask(t)

\* The step is a move inside the active session.
MoveStep == sortMode # "None" /\ sortMode' = sortMode /\ tasks' = tasks

\* C1: cancelling a session returns it to Idle and leaves the Entity Store as it
\* was when the session started (no refresh having landed in between).
C1_CancelRestoresStore ==
    [][(CancelStep /\ ~refreshed) =>
          (currentSortingGroupId' = Null /\ groups' = startGroups)]_vars

\* C2: a commit always ends with the session in Idle, whatever the answer to the
\* set-ordering request; a failed one also puts an error in the snackbar.
C2_CommitEndsIdle ==
    [][\A t \in InFlight : CommitEnds(t) =>
          /\ sortMode' = "None"
          /\ currentSortingGroupId' = Null
          /\ (t.pc = "resp" => surfaced' = t.kind)]_vars

\* C3: a group-order commit answered with false leaves the groups of the Entity
\* Store in the order they had when the GroupSort session started.
C3_FailedCommitKeepsOrder ==
    [][\A t \in InFlight :
          (/\ CommitEnds(t)
           /\ t.kind = "saveGroupOrder" /\ t.pc = "resp" /\ t.out = "false"
           /\ sortMode = "GroupSort" /\ ~refreshed)
          => IdsInOrder(groups') = IdsInOrder(startGroups)]_vars

\* The pairs are one per element of the buffer, in its order, numbered from 0.
DenseFrom(pairs, buffer) ==
    /\ Len(pairs) = Len(buffer)
    /\ \A p \in 1..Len(buffer) : pairs[p].id = buffer[p].id /\ pairs[p].order_num = p - 1
    /\ {pairs[p].order_num : p \in DOMAIN pairs} = 0..(Len(buffer) - 1)

\* C4: a commit of a buffer of length n submits n pairs, the element at position p
\* with order_num p, whatever order_num the elements had before.
C4_CommitSubmitsDensePositions ==
    [][\A t \in BagToSet(tasks') : (t.pc = "call" /\ tasks' = AddTask(t)) =>
          /\ t.kind = "saveGroupOrder" => DenseFrom(t.payload, groups)
          /\ t.kind = "saveSiteOrder" => DenseFrom(t.payload, cardSites[t.arg])]_vars

C4_Witness ==
    \E t \in InFlight :
        /\ t.kind = "saveSiteOrder" /\ t.pc = "call"
        /\ Len(t.payload) >= 3
        /\ t.payload[1].id > t.payload[2].id
        /\ \E p \in DOMAIN t.payload :
              cardSites[1][FindIndex(cardSites[1], t.payload[p].id)].order_num
                  # t.payload[p].order_num

\* `after` is `before` with the element of position i taken out and put at position j.
IsMoveOf(before, after, i, j) ==
    /\ Len(after) = Len(before)
    /\ Range(after) = Range(before)
    /\ after[j] = before[i]
    /\ RemoveAt(after, j) = RemoveAt(before, i)

\* C5: for all valid positions i, j of the staging buffer the drag-end handler gives
\* a permutation with the moved element at j and the others in their order, the
\* buffer itself when i = j; and every move made in a session is such a result.
C5_MoveIsReinsertion ==
    [][/\ \A i, j \in DOMAIN ActiveBuffer :
             LET r == dragEnd(ActiveBuffer, ActiveBuffer[i].id, ActiveBuffer[j].id)
             IN IsMoveOf(ActiveBuffer, r, i, j) /\ (i = j => r = ActiveBuffer)
       /\ (MoveStep /\ ActiveBuffer' # ActiveBuffer) =>
             \E i, j \in DOMAIN ActiveBuffer :
                 i # j /\ IsMoveOf(ActiveBuffer, ActiveBuffer', i, j)]_vars

C5_Witness ==
    /\ Len(ActiveBuffer) >= 3
    /\ ActiveBuffer[1].id > ActiveBuffer[3].id
    /\ ActiveBuffer[2].id < ActiveBuffer[3].id

\* C6: while a session is active no step starts another one: the mode and the
\* sorting group stay as they are until the session goes back to None.
C6_NoStartDuringSession ==
    [][sortMode # "None" =>
          \/ sortMode' = "None"
          \/ sortMode' = sortMode /\ currentSortingGroupId' = currentSortingGroupId]_vars

C6_Witness ==
    /\ sortMode = "SiteSort" /\ AppShown
    /\ Len(groups) >= 2
    /\ ~GroupSortEntryRendered
    /\ \A g \in DOMAIN cardSites : ~SortButtonRendered(g)
    /\ \E t \in InFlight : t.kind = "saveGroupOrder"

\* C7: a click on the sort button of a group with fewer than 2 sites leaves the
\* session in Idle, shows the warning of that card and opens no staging buffer.
C7_SortClickOnSmallGroup ==
    [][(sortClicked' # Null /\ Len(SitesOf(groups, sortClicked')) < 2) =>
          /\ sortMode' = "None"
          /\ currentSortingGroupId' = Null
          /\ warned' = sortClicked'
          /\ UNCHANGED <<cardSites, startGroups, tasks, groups>>]_vars

C7_Witness ==
    /\ sortClicked # Null
    /\ warned = sortClicked
    /\ Len(SitesOf(groups, sortClicked)) < 2
    /\ sortMode = "None"

\* C8: a move changes the staging buffer only: it sends nothing to storage and
\* leaves the Entity Store as it is.
C8_MoveLeavesStore ==
    [][MoveStep => (groups' = groups /\ db' = db)]_vars

\* C9: whenever a SiteSort session starts, the site staging buffer is the site
\* list the Entity Store holds for that group.
C9_SiteBufferSeededFromStore ==
    [][(sortMode = "None" /\ sortMode' = "SiteSort") =>
          cardSites'[currentSortingGroupId'] = SitesOf(groups', currentSortingGroupId')]_vars

\* C10: the Entity Store changes only when a refresh that got its data replaces it.
C10_StoreChangedOnlyByRefresh ==
    [][groups' # groups =>
          \E t \in InFlight : t.pc = "fetched" /\ t.out = "ok" /\ groups' = t.snap]_vars

\* The step starts the refresh of task t.
RefreshStarts(t) == t.pc = "getGroups" /\ CopiesIn(t, tasks') > CopiesIn(t, tasks)

\* C11: the refresh of a commit starts only from the handler whose set-ordering
\* request has been answered with success, by that one step; a commit whose request
\* failed ends without a refresh, the Entity Store and the loading flag as they were.
C11_RefreshAfterAnsweredCommit ==
    [][/\ \A t \in BagToSet(tasks') : (t.kind \in Commits /\ RefreshStarts(t)) =>
             \E u \in InFlight :
                 /\ u.kind = t.kind /\ u.payload = t.payload
                 /\ u.pc = "resp" /\ u.out = "ok"
                 /\ tasks' = ReplaceTask(u, t)
                 /\ db' = db
       /\ \A u \in InFlight :
             (u.kind \in Commits /\ u.pc = "resp" /\ u.out # "ok"
                 /\ CopiesIn(u, tasks') < CopiesIn(u, tasks))
             => tasks' = DropTask(u) /\ loading' = loading /\ groups' = groups]_vars

C11_Witness ==
    \E t \in InFlight :
        /\ t.kind = "saveGroupOrder" /\ t.pc = "getGroups"
        /\ db.groups # InitialGroupRows
        /\ updateGroupOrder(db, t.payload) = db

\* The list is in ascending order of order_num.
Ascending(list) == \A i, j \in DOMAIN list : i < j => list[i].order_num <= list[j].order_num

\* C19: in every reachable state the groups of the Entity Store are in ascending
\* order of order_num, and so are the sites of each group.
C19_StoreAscending ==
    /\ Ascending(groups)
    /\ \A k \in DOMAIN groups : Ascending(groups[k].sites)

\* Set-ordering requests that have been sent and not yet answered.
CommitsInFlight ==
    [t \in {u \in InFlight : u.kind \in Commits /\ u.pc = "call"} |-> CopiesIn(t, tasks)]

\* C13: at most one set-ordering request is in flight at any time.
C13_OneCommitInFlight == BagCardinality(CommitsInFlight) <= 1

\* The step ends the handler that is task t.
HandlerEnds(t) == tasks' = DropTask(t)

\* C18: when a group delete handler ends after its refresh got its data, the Entity
\* Store holds neither the deleted group nor any site whose group_id is its id.
C18_NoOrphanAfterGroupDelete ==
    [][\A t \in InFlight :
          (/\ t.kind = "groupDelete" /\ HandlerEnds(t)
           /\ t.arg \notin Ids(db.groups)
           /\ ~(t.pc = "resp" /\ t.out \notin {"ok", "false"})
           /\ ~(t.pc = "fetched" /\ t.out # "ok"))
          => /\ t.arg \notin Ids(groups')
             /\ \A k \in DOMAIN groups' :
                   \A n \in DOMAIN groups'[k].sites : groups'[k].sites[n].group_id # t.arg]_vars

C18_Witness ==
    /\ tasks = EmptyBag
    /\ Ids(groups) = {2}
    /\ Ids(db.groups) = {2}
    /\ 11 \notin Ids(db.sites)
    /\ loading = FALSE

\* C20: when a refresh that got its data ends and leaves no handler in flight, the
\* Entity Store is what storage holds.
C20_StoreEqualsStorageWhenQuiet ==
    [][\A t \in InFlight :
          (t.pc = "fetched" /\ t.out = "ok" /\ HandlerEnds(t) /\ tasks' = EmptyBag)
          => groups' = StoreOf(db')]_vars

Imports == {t \in InFlight : t.kind = "import"}

\* C12: while an import is outstanding the gate of the import button is set, and
\* no second import is in flight.
C12_ImportGateHeld ==
    Imports # {} =>
        /\ importLoading
        /\ \A t \in Imports : Imports = {t} /\ CopiesIn(t, tasks) = 1

\* The step takes task t one step on, or ends it.
Advances(t) == CopiesIn(t, tasks') < CopiesIn(t, tasks)

\* The first section of a snapshot that is not what the import requires: groups and
\* sites sequences, configs a key-value mapping; "" when all three are.
FirstMissing(snapshot) ==
    IF snapshot.groups.type # "array" THEN "groups"
    ELSE IF snapshot.sites.type # "array" THEN "sites"
    ELSE IF snapshot.configs.type # "object" THEN "configs"
    ELSE ""

\* C14: a file that has been read and lacks a section never reaches api.importData:
\* the handler ends there, storage, Entity Store and configuration as they were,
\* the error naming the first missing section.
C14_ImportValidationFailsFast ==
    [][\A t \in InFlight :
          (t.kind = "import" /\ t.pc = "read" /\ Advances(t)
              /\ FirstMissing(Content(t.arg)) # "" /\ surfaced' # "import: read")
          => /\ tasks' = DropTask(t)
             /\ UNCHANGED <<db, groups, configs>>
             /\ surfaced' = FormatError(FirstMissing(Content(t.arg)))]_vars

\* C15: an import answered with success goes on to fetchData and then, whatever
\* fetchData got, to fetchConfigs, each putting what it got into the application;
\* a refresh of an import starts in no other way, and an import that fails ends
\* with the Entity Store, the configuration and the loading flag as they were.
C15_ImportRefreshesBoth ==
    [][/\ \A t \in InFlight : (t.kind = "import" /\ Advances(t)) =>
             /\ (t.pc = "resp" /\ t.out = "ok") =>
                   loading' /\ tasks' = ReplaceTask(t, [t EXCEPT !.pc = "getGroups", !.out = ""])
             /\ t.pc = "fetched" =>
                   /\ tasks' = ReplaceTask(t, [t EXCEPT !.pc = "getConfigs", !.snap = <<>>])
                   /\ t.out = "ok" => groups' = t.snap
             /\ t.pc = "getConfigs" =>
                   /\ tasks' = DropTask(t)
                   /\ configs' \in {configs, Spread(DEFAULT_CONFIGS, getConfigs(db))}
             /\ (t.pc = "read" /\ tasks' = DropTask(t)) \/ (t.pc = "resp" /\ t.out # "ok") =>
                   tasks' = DropTask(t) /\ UNCHANGED <<groups, configs, loading, db>>
       /\ \A t \in BagToSet(tasks') : (t.kind = "import" /\ RefreshStarts(t)) =>
             \E u \in InFlight :
                 u.kind = "import" /\ u.pc = "resp" /\ u.out = "ok" /\ tasks' = ReplaceTask(u, t)]_vars

C15_Witness ==
    /\ tasks = EmptyBag /\ ~openImport /\ ~loading
    /\ importResultMessage # <<>>
    /\ groups = StoreOf(db) /\ Len(groups) = 1 /\ Len(groups[1].sites) = 1
    /\ configs = Spread(DEFAULT_CONFIGS, getConfigs(db)) /\ configs # DEFAULT_CONFIGS

\* Importing the snapshot into d and then once more: the second run merges every
\* group, skips every site, creates and updates nothing and leaves storage as the
\* first run left it.
SecondRunNothingNew(d, snapshot) ==
    LET first == importData(d, snapshot)
        second == importData(first.db, snapshot)
    IN /\ second.stats.groups.merged = Len(snapshot.groups.items)
       /\ second.stats.groups.created = 0
       /\ second.stats.sites.skipped = Len(snapshot.sites.items)
       /\ second.stats.sites.created = 0
       /\ second.stats.sites.updated = 0
       /\ second.db = first.db

\* C16: importing the same snapshot twice in a row, whatever storage held before,
\* the second run finds nothing new.
WellFormedSnapshots == {Content(file) : file \in {f \in ImportFiles : WellFormed(Content(f))}}

FileGroupName(snapshot, site) ==
    LET items == snapshot.groups.items
    IN items[FirstMatch({i \in DOMAIN items : items[i].id = site.group_id})].name

\* No two sites of the snapshot have the same url in groups of the same name and
\* differ in what the import writes.
NoRivalSites(snapshot) ==
    \A i, j \in DOMAIN snapshot.sites.items :
        LET a == snapshot.sites.items[i]
            b == snapshot.sites.items[j]
        IN (a.url = b.url /\ FileGroupName(snapshot, a) = FileGroupName(snapshot, b))
               => (a.name = b.name /\ a.order_num = b.order_num)

RivalFreeSnapshots == {snapshot \in WellFormedSnapshots : NoRivalSites(snapshot)}

DevStats ==
    [groups |-> [total |-> 1, created |-> 1, merged |-> 0],
     sites |-> [total |-> 1, created |-> 1, updated |-> 0, skipped |-> 0]]

\* C17: the import of one group, one site in it and one configuration pair into an
\* empty storage is answered with created 1 for the group and for the site and
\* nothing else counted, and storage then holds the imported configuration value.
C17_ImportIntoEmptyStore ==
    [][\A t \in InFlight :
          (/\ t.kind = "import" /\ t.pc = "call" /\ t.arg = "dev.json"
           /\ db.groups = <<>> /\ db.sites = <<>>
           /\ \E u \in BagToSet(tasks') : u.out = "ok" /\ tasks' = ReplaceTask(t, u))
          => /\ \E u \in BagToSet(tasks') : tasks' = ReplaceTask(t, u) /\ u.snap = << DevStats >>
             /\ "site.title" \in DOMAIN getConfigs(db')
             /\ getConfigs(db')["site.title"] = "X"]_vars

C17_Witness ==
    /\ importResultMessage = << DevStats >>
    /\ tasks = EmptyBag
    /\ Len(groups) = 1 /\ Len(groups[1].sites) = 1
    /\ configs["site.title"] = "X"

\* C26: the sorting group is set exactly in SiteSort: currentSortingGroupId is a
\* group id when sortMode is SiteSort and null when it is None or GroupSort.
C26_SessionVariablesConsistent ==
    /\ sortMode \in {"None", "GroupSort", "SiteSort"}
    /\ (currentSortingGroupId # Null) = (sortMode = "SiteSort")

\* A SiteSort session on a mounted card.
C26_Witness ==
    /\ sortMode = "SiteSort" /\ currentSortingGroupId # Null
    /\ CardMounted(currentSortingGroupId)

\* C27: a step in which the completion of a commit ends the session ends the
\* session the commit is of: a GroupSort session for a group-order commit, the
\* SiteSort session of its group for a site-order commit.
C27_OnlyOwnCommitEndsSession ==
    [][\A t \in InFlight :
          (/\ t.kind \in Commits /\ t.pc = "fetched" /\ tasks' = DropTask(t)
           /\ sortMode # "None" /\ sortMode' = "None")
          => \/ t.kind = "saveGroupOrder" /\ sortMode = "GroupSort"
             \/ t.kind = "saveSiteOrder" /\ isCurrentEditingGroup(t.arg)]_vars

\* C28: while a GroupSort session lasts, the staged list of groups changes only by
\* a move of handleDragEnd.
C28_StagedOrderChangesOnlyByMove ==
    [][(sortMode = "GroupSort" /\ sortMode' = "GroupSort" /\ groups' # groups)
          => \E active \in Ids(groups), over \in Ids(groups) :
                 groups' = dragEnd(groups, active, over)]_vars

\* The row a delete request is for is not in storage.
TargetGone(t) ==
    \/ t.kind = "siteDelete" /\ t.arg \notin Ids(db.sites)
    \/ t.kind = "groupDelete" /\ t.arg \notin Ids(db.groups)

\* C21: a delete that has been answered with a failure, its target no longer in
\* storage, surfaces the error and starts fetchData.
C21_MissingTargetSurfacedAndRefreshed ==
    [][\A t \in InFlight :
          (t.pc = "resp" /\ t.out # "ok" /\ TargetGone(t) /\ Advances(t))
          => /\ surfaced' # ""
             /\ \E u \in BagToSet(tasks') : RefreshStarts(u) /\ tasks' = ReplaceTask(t, u)]_vars

\* C22: a handler resumed by an answer in which storage rejected the caller puts
\* the application into the re-authentication flow.
C22_AuthRejectionDropsToLogin ==
    [][\A t \in InFlight :
          (t.out = "auth" /\ t.pc \in {"resp", "fetched"} /\ Advances(t))
          => isAuthRequired' /\ ~isAuthenticated']_vars

\* The step starts the handler that is task t, up to its first request.
HandlerStarts(t) == t.pc = "call" /\ CopiesIn(t, tasks') > CopiesIn(t, tasks)

\* The site rows of storage d outside group g.
SitesOutside(d, g) == SelectSeq(d.sites, LAMBDA r : r.group_id # g)

\* C25: a GroupSort commit is one group-order request with the ids of all groups
\* of the buffer, a SiteSort(g) commit one site-order request with ids of sites of
\* group g only; answered, the first changes no site row and the second no group
\* row and no site row of another group.
C25_CommitScopedToSession ==
    [][/\ \A t \in BagToSet(tasks') : (t.kind \in Commits /\ HandlerStarts(t)) =>
             /\ tasks' = AddTask(t)
             /\ t.kind = "saveGroupOrder" =>
                   sortMode = "GroupSort" /\ Ids(t.payload) = Ids(groups)
             /\ t.kind = "saveSiteOrder" =>
                   /\ isCurrentEditingGroup(t.arg)
                   /\ Ids(t.payload) \subseteq Ids(SitesOf(groups, t.arg))
       /\ \A t \in InFlight : (t.kind \in Commits /\ t.pc = "call" /\ Advances(t)) =>
             /\ t.kind = "saveGroupOrder" => db'.sites = db.sites
             /\ t.kind = "saveSiteOrder" =>
                   /\ db'.groups = db.groups
                   /\ SitesOutside(db', t.arg) = SitesOutside(db, t.arg)]_vars

\* The positions of a flat sequence of sites that hold site r.
PositionsOf(items, r) == {i \in DOMAIN items : items[i].id = r.id}

\* C30: a snapshot handed out by handleExportData passes the checks of the import:
\* its groups are a sequence with id, name and order_num of each group and nothing
\* else, its sites a flat sequence with every site of every group exactly once and
\* nothing else, its configs a key-value mapping.
C30_ExportPassesImportValidation ==
    downloaded # <<>> =>
        LET snapshot == downloaded[1] IN
        /\ RejectedSection(snapshot) = ""
        /\ FirstMissing(snapshot) = ""
        /\ DOMAIN snapshot.groups.items = DOMAIN groups
        /\ \A k \in DOMAIN groups :
              /\ DOMAIN snapshot.groups.items[k] = {"id", "name", "order_num"}
              /\ \A f \in {"id", "name", "order_num"} :
                    snapshot.groups.items[k][f] = groups[k][f]
        /\ \A k \in DOMAIN groups : \A j \in DOMAIN groups[k].sites :
              /\ Cardinality(PositionsOf(snapshot.sites.items, groups[k].sites[j])) = 1
              /\ \E i \in DOMAIN snapshot.sites.items :
                    snapshot.sites.items[i] = groups[k].sites[j]
        /\ \A i \in DOMAIN snapshot.sites.items :
              \E k \in DOMAIN groups : \E j \in DOMAIN groups[k].sites :
                  snapshot.sites.items[i] = groups[k].sites[j]
        /\ snapshot.configs.map = configs

\* An export of two groups, one with sites and one that has lost its last site.
C30_Witness ==
    /\ downloaded # <<>>
    /\ Len(groups) = 2
    /\ \E k \in DOMAIN groups : groups[k].sites = <<>>
    /\ Len(downloaded[1].sites.items) >= 2

EmptyFieldMessages == {"createGroup: empty name", "createSite: empty name or url"}

\* C23: a create or rename request is started only with its required fields filled
\* in (the group name; the site name and url; the trimmed name of the edit dialog),
\* and a click that is turned down for an empty field starts no request and leaves
\* storage and the Entity Store as they were.
C23_EmptyFieldRejectedBeforeMutation ==
    [][/\ \A t \in BagToSet(tasks') : HandlerStarts(t) =>
             /\ t.kind = "createGroup" =>
                   t.payload[1] = newGroup /\ ~IsEmpty(newGroup.name)
             /\ t.kind = "createSite" =>
                   t.payload[1] = newSite /\ ~IsEmpty(newSite.name) /\ ~IsEmpty(newSite.url)
             /\ t.kind = "groupUpdate" =>
                   /\ t.arg = editDialogOpen
                   /\ t.payload[1].name = Trim(dialogName)
                   /\ ~IsEmpty(Trim(dialogName))
       /\ (openAddGroup /\ IsEmpty(newGroup.name))
             => \A t \in BagToSet(tasks') : ~(HandlerStarts(t) /\ t.kind = "createGroup")
       /\ (openAddSite /\ (IsEmpty(newSite.name) \/ IsEmpty(newSite.url)))
             => \A t \in BagToSet(tasks') : ~(HandlerStarts(t) /\ t.kind = "createSite")
       /\ surfaced' \in EmptyFieldMessages => UNCHANGED <<tasks, db, groups>>]_vars

\* The create button of the add-group dialog was clicked over an empty name.
C23_Witness ==
    /\ surfaced = "createGroup: empty name"
    /\ openAddGroup /\ IsEmpty(newGroup.name)
    /\ tasks = EmptyBag

\* C29: the edit dialog calls onDelete only on a delete click made while its
\* confirmation is shown, for the group it was opened on; the confirmation comes up
\* only by a delete click, which starts no request, and it is hidden whenever the
\* dialog opens, closes or is handed the groups of a refresh.
C29_DeleteOnlyWhenArmed ==
    [][/\ \A t \in BagToSet(tasks') : (HandlerStarts(t) /\ t.kind = "groupDelete") =>
             /\ showDeleteConfirm
             /\ editDialogOpen = t.arg
             /\ editDialogOpen' = Null
       /\ (showDeleteConfirm' /\ ~showDeleteConfirm) =>
             /\ editDialogOpen # Null
             /\ UNCHANGED <<editDialogOpen, dialogName, tasks, db, groups>>
       /\ (editDialogOpen' # editDialogOpen \/ groups' # groups) => ~showDeleteConfirm']_vars

\* The confirming click has been made: the delete request of group 1 is in flight
\* and the dialog is closed.
C29_Witness ==
    /\ editDialogOpen = Null
    /\ \E t \in InFlight : t.kind = "groupDelete" /\ t.pc = "call" /\ t.arg = 1

====
